---- MODULE Spec2Model ----
(***************************************************************************)
(* A model of the translation pipeline of AxiomFlow (axiomflow-api):       *)
(*   - the math protector (services/text_protect.py),                      *)
(*   - the concurrent / smart batch translator                             *)
(*     (services/concurrent_translator.py, smart_batch_translator.py),     *)
(*   - the adaptive batch-size controller (_update_batch_size),            *)
(*   - the translate job (tasks/translate.py, routers/jobs.py),            *)
(*   - the orchestrator's cached translate (services/orchestrator.py).     *)
(* Each part has its own specification over its own variables; the other   *)
(* parts' variables stay at their idle values.                             *)
(***************************************************************************)
EXTENDS Integers, Sequences, FiniteSets, TLC

VARIABLES
    \* ---- math protector ----
    m_pc,        \* "build" | "protected" | "restored"
    m_ntok,      \* number of tokens appended to the input text
    m_text,      \* the input text T, a sequence of characters
    m_prot,      \* protect_math(T): [text, mapping]
    m_out        \* unprotect_math(protect_math(T).text, protect_math(T).mapping)

mathVars == <<m_pc, m_ntok, m_text, m_prot, m_out>>

VARIABLES
    \* ---- adaptive batch-size controller (SmartBatchTranslator) ----
    t_on,                  \* the controller is the part being run
    adaptive_batch_size,   \* self.adaptive_batch_size
    current_batch_size,    \* self.current_batch_size
    response_times,        \* self.response_times, as value -> occurrences
    error_flags,           \* self.error_flags, as flag -> occurrences
    t_elapsed,             \* time.time() - self._last_tune_ts >= 1.0
    t_calls,               \* calls of _update_batch_size so far
    t_last                 \* what the last call saw and did

tuneVars == <<t_on, adaptive_batch_size, current_batch_size, response_times,
              error_flags, t_elapsed, t_calls, t_last>>

VARIABLES
    \* ---- batch translators (ConcurrentTranslator, SmartBatchTranslator) ----
    b_mode,        \* "off" | "concurrent" | "priority" | "grouping" | "plain"
    b_types,       \* tasks: task i has block_id i and meta.block_type b_types[i]
    semaphore,     \* free slots of self.semaphore
    b_task,        \* translate_one of task i: pc, retry_count, last_error, result
    b_batch,       \* the tasks of the batch being awaited by gather, in order
    b_coord,       \* position of translate_batch / translate_batch_smart
    b_results,     \* results
    b_completed,   \* completed of the running translate_batch / _translate_batch_simple
    b_cb           \* the progress_callback invocations so far, <<done, total>>

batchVars == <<b_mode, b_types, semaphore, b_task, b_batch, b_coord, b_results,
               b_completed, b_cb>>

\* the controller's variables other than current_batch_size
tuneRest == <<t_on, adaptive_batch_size, response_times, error_flags,
              t_elapsed, t_calls, t_last>>

VARIABLES
    \* ---- translate job (run_translate_job, routers/jobs.py) ----
    j_pc,          \* position of the Celery task run_translate_job
    j_stage,       \* job["stage"]
    j_control,     \* job["control"]
    j_blocks,      \* structured: per block, translatable and its translation fields
    j_idx,         \* the block the loop of translate_all is at
    j_done,        \* done
    j_failed,      \* len(failed_blocks)
    j_retries,     \* automatic retries of the task so far
    j_ret,         \* the value the task function returned
    j_cancel_pc,   \* position of the request handler cancel_job
    j_obs          \* what has happened in this execution of the task function

jobVars == <<j_pc, j_stage, j_control, j_blocks, j_idx, j_done, j_failed,
             j_retries, j_ret, j_cancel_pc, j_obs>>

VARIABLES
    \* ---- orchestrator with translation memory (services/orchestrator.py) ----
    o_fn,          \* the function the calls run: translate_text or translate_func
    o_task,        \* per concurrent call: position, key, outcome
    translation_memory,   \* repo.translation_memory: key -> cached or not
    o_calls        \* per key, the number of times provider.translate was invoked

orchVars == <<o_fn, o_task, translation_memory, o_calls>>

VARIABLES
    \* ---- functions called on one input (cache key, layout, structure,
    \*      export, glossary) ----
    f_part,        \* the function under call, "off" when none
    f_pc,          \* position of the call
    f_in,          \* the arguments
    f_mem,         \* the object the call works on
    f_out          \* the value returned

fnVars == <<f_part, f_pc, f_in, f_mem, f_out>>

vars == <<mathVars, tuneVars, batchVars, jobVars, orchVars, fnVars>>

\* ------------------------------------------------------------------------
\* Generic helpers
\* ------------------------------------------------------------------------

Min(S) == CHOOSE x \in S : \A y \in S : x <= y

Max(S) == CHOOSE x \in S : \A y \in S : x >= y

Range(s) == {s[i] : i \in 1..Len(s)}

\* ------------------------------------------------------------------------
\* Math protector (services/text_protect.py)
\* Texts are sequences of one-character strings.  Spans are kept as Python
\* keeps them: [s, e, val] with s 0-based inclusive and e exclusive.
\* ------------------------------------------------------------------------

\* the largest number of tokens of an input text
MaxTokens == 6

\* the pieces input texts are built from
Tokens ==
    { <<"$">>, <<"a">>, <<"{", "v", "1", "}">>,
      <<"\\", "(">>, <<"\\", ")">>, <<"\\", "[">>, <<"\\", "]">> }

\* d occurs in t at (1-based) position i
HasAt(t, i, d) ==
    /\ i >= 1
    /\ i + Len(d) - 1 <= Len(t)
    /\ \A k \in 1..Len(d) : t[i + k - 1] = d[k]

\* open [\s\S]+? close anchored at i: the (1-based, exclusive) end of the
\* match, or 0 when there is none
MatchDelimAt(t, i, open, close) ==
    IF ~HasAt(t, i, open) THEN 0
    ELSE LET cands == {j \in (i + Len(open) + 1)..Len(t) : HasAt(t, j, close)}
         IN  IF cands = {} THEN 0 ELSE Min(cands) + Len(close)

\* (?<!\$)\$[^$\n]+?\$(?!\$) anchored at i
MatchInlineAt(t, i) ==
    IF ~(HasAt(t, i, <<"$">>) /\ (i = 1 \/ t[i - 1] # "$")) THEN 0
    ELSE LET later == {j \in (i + 1)..Len(t) : t[j] = "$"}
         IN  IF later = {} THEN 0
             ELSE LET j == Min(later)
                  IN  IF /\ j >= i + 2
                         /\ \A k \in (i + 1)..(j - 1) : t[k] # "\n"
                         /\ (j = Len(t) \/ t[j + 1] # "$")
                      THEN j + 1 ELSE 0

\* the four patterns of _PATTERNS, in their order
PatternMatchAt(p, t, i) ==
    CASE p = 1 -> MatchDelimAt(t, i, <<"$", "$">>, <<"$", "$">>)
      [] p = 2 -> MatchInlineAt(t, i)
      [] p = 3 -> MatchDelimAt(t, i, <<"\\", "(">>, <<"\\", ")">>)
      [] p = 4 -> MatchDelimAt(t, i, <<"\\", "[">>, <<"\\", "]">>)

NumPatterns == 4

\* pat.finditer(text): the non-overlapping matches, scanning from pos
RECURSIVE FindIter(_, _, _)
FindIter(p, t, pos) ==
    LET starts == {i \in pos..Len(t) : PatternMatchAt(p, t, i) # 0}
    IN  IF starts = {} THEN <<>>
        ELSE LET i == Min(starts)
                 e == PatternMatchAt(p, t, i)
             IN  <<[s |-> i - 1, e |-> e - 1, val |-> SubSeq(t, i, e - 1)]>>
                 \o FindIter(p, t, e)

\* the spans of all patterns, in the order the loop appends them
RECURSIVE CollectSpans(_, _)
CollectSpans(p, t) ==
    IF p > NumPatterns THEN <<>>
    ELSE FindIter(p, t, 1) \o CollectSpans(p + 1, t)

\* the sort key (x[0], -(x[1] - x[0])) compared lexicographically
SpanKeyLess(a, b) ==
    \/ a.s < b.s
    \/ a.s = b.s /\ (0 - (a.e - a.s)) < (0 - (b.e - b.s))

RemoveAt(s, i) == SubSeq(s, 1, i - 1) \o SubSeq(s, i + 1, Len(s))

\* list.sort(key=...): stable
RECURSIVE SortSpans(_)
SortSpans(sp) ==
    IF sp = <<>> THEN <<>>
    ELSE LET i == Min({k \in 1..Len(sp) :
                        \A l \in 1..Len(sp) : ~SpanKeyLess(sp[l], sp[k])})
         IN  <<sp[i]>> \o SortSpans(RemoveAt(sp, i))

\* the filter loop: drop a span that starts before the end of the last kept
RECURSIVE FilterSpans(_, _)
FilterSpans(sp, last_end) ==
    IF sp = <<>> THEN <<>>
    ELSE IF Head(sp).s < last_end THEN FilterSpans(Tail(sp), last_end)
         ELSE <<Head(sp)>> \o FilterSpans(Tail(sp), Head(sp).e)

DigitChars == <<"0", "1", "2", "3", "4", "5", "6", "7", "8", "9">>

\* str(n)
RECURSIVE IntStr(_)
IntStr(n) ==
    IF n < 10 THEN <<DigitChars[n + 1]>>
    ELSE IntStr(n \div 10) \o <<DigitChars[(n % 10) + 1]>>

\* f"{{v{idx}}}"
Placeholder(idx) == <<"{", "v">> \o IntStr(idx) \o <<"}">>

Reverse(s) == [i \in 1..Len(s) |-> s[Len(s) + 1 - i]]

\* the replacement loop over reversed(filtered); the mapping is the dict in
\* insertion order, a sequence of [key, val]
RECURSIVE ReplaceSpans(_, _, _, _)
ReplaceSpans(rsp, idx, out, mapping) ==
    IF rsp = <<>> THEN [text |-> out, mapping |-> mapping]
    ELSE LET sp == Head(rsp)
             ph == Placeholder(idx)
         IN  ReplaceSpans(Tail(rsp), idx + 1,
                 SubSeq(out, 1, sp.s) \o ph \o SubSeq(out, sp.e + 1, Len(out)),
                 Append(mapping, [key |-> ph, val |-> sp.val]))

protect_math(text) ==
    LET filtered == FilterSpans(SortSpans(CollectSpans(1, text)), -1)
    IN  IF filtered = <<>> THEN [text |-> text, mapping |-> <<>>]
        ELSE ReplaceSpans(Reverse(filtered), 1, text, <<>>)

\* str.replace(old, new): every non-overlapping occurrence, left to right
RECURSIVE StrReplace(_, _, _)
StrReplace(t, old, new) ==
    IF t = <<>> THEN <<>>
    ELSE IF HasAt(t, 1, old)
         THEN new \o StrReplace(SubSeq(t, Len(old) + 1, Len(t)), old, new)
         ELSE <<Head(t)>> \o StrReplace(Tail(t), old, new)

\* sorted(mapping.keys(), key=len, reverse=True): stable, longest key first
RECURSIVE SortByLenDesc(_)
SortByLenDesc(mp) ==
    IF mp = <<>> THEN <<>>
    ELSE LET i == Min({k \in 1..Len(mp) :
                        \A l \in 1..Len(mp) : Len(mp[l].key) <= Len(mp[k].key)})
         IN  <<mp[i]>> \o SortByLenDesc(RemoveAt(mp, i))

RECURSIVE ApplyMapping(_, _)
ApplyMapping(out, mp) ==
    IF mp = <<>> THEN out
    ELSE ApplyMapping(StrReplace(out, Head(mp).key, Head(mp).val), Tail(mp))

unprotect_math(text, mapping) == ApplyMapping(text, SortByLenDesc(mapping))

NoProt == [text |-> <<>>, mapping |-> <<>>]

MathIdle ==
    /\ m_pc = "idle"
    /\ m_ntok = 0
    /\ m_text = <<>>
    /\ m_prot = NoProt
    /\ m_out = <<>>

\* ------------------------------------------------------------------------
\* Orchestrator: idle values
\* ------------------------------------------------------------------------

OrchIdle ==
    /\ o_fn = "none"
    /\ o_task = <<>>
    /\ translation_memory = <<>>
    /\ o_calls = <<>>

\* ------------------------------------------------------------------------
\* Functions called on one input: idle values
\* ------------------------------------------------------------------------

FnIdle ==
    /\ f_part = "off"
    /\ f_pc = "off"
    /\ f_in = <<>>
    /\ f_mem = <<>>
    /\ f_out = <<>>

\* the other parts do nothing while a function of this part is called
FnFrame == UNCHANGED <<mathVars, tuneVars, batchVars, jobVars, orchVars, f_part>>

\* ------------------------------------------------------------------------
\* Translate job: idle values
\* ------------------------------------------------------------------------

NoRet == [status |-> "none", failed_count |-> -1]

NoObs == [saw_cancel |-> FALSE, saw_paused |-> FALSE, fatal |-> FALSE,
          raised |-> 0, wrote_failed |-> FALSE, cancel_requested |-> FALSE]

JobIdle ==
    /\ j_pc = "off"
    /\ j_stage = "pending"
    /\ j_control = "running"
    /\ j_blocks = <<>>
    /\ j_idx = 0
    /\ j_done = 0
    /\ j_failed = 0
    /\ j_retries = 0
    /\ j_ret = NoRet
    /\ j_cancel_pc = "idle"
    /\ j_obs = NoObs

\* ------------------------------------------------------------------------
\* Batch translators: idle values
\* ------------------------------------------------------------------------

NoResult == [block_id |-> 0, translation |-> 0, error |-> 0, retry_count |-> 0]

NoTask == [pc |-> "idle", retry_count |-> 0, calls |-> 0, fails |-> 0,
           last_error |-> 0, result |-> NoResult]

NoCoord == [phase |-> "init", rest |-> <<>>, gi |-> 0, i |-> 0, step |-> 0,
            completed |-> 0]

BatchIdle ==
    /\ b_mode = "off"
    /\ b_types = <<>>
    /\ semaphore = 0
    /\ b_task = <<>>
    /\ b_batch = <<>>
    /\ b_coord = NoCoord
    /\ b_results = <<>>
    /\ b_completed = 0
    /\ b_cb = <<>>

\* ------------------------------------------------------------------------
\* Adaptive batch-size controller
\* (services/smart_batch_translator.py, SmartBatchTranslator._update_batch_size)
\* Latencies are in milliseconds.  A rolling window is kept as the number of
\* occurrences of each value: the code reads only its length and its sum;
\* pop(0) removes one occurrence of some value that is present.
\* ------------------------------------------------------------------------

\* the number of _update_batch_size calls explored
MaxCalls == 24

\* max_workers of the translator whose controller is explored
TuneWorkers == 2

\* the response times a call may report: a fast and a slow one
Latencies == {100, 3000}

max_response_times == 100

max_error_flags == 200

\* len(self.response_times) >= 10
MinTimesToTune == 10

\* len(self.error_flags) >= 20
MinFlagsForErrRate == 20

\* batch_target_avg_latency_s (1.2 s), in ms
target_latency == 1200

\* batch_target_error_rate 0.05 = 5 / 100
target_err_pct == 5

\* int(getattr(settings, "batch_max_size", max(1, self.max_workers * 2)))
max_size(max_workers) == Max({1, Max({1, max_workers * 2})})

RECURSIVE SumOver(_, _)
SumOver(f, S) ==
    IF S = {} THEN 0
    ELSE LET x == CHOOSE y \in S : TRUE
         IN  f[x] + SumOver(f, S \ {x})

\* len(window)
WinLen(w) == SumOver(w, DOMAIN w)

\* sum(window)
WinSum(w) == SumOver([x \in DOMAIN w |-> x * w[x]], DOMAIN w)

\* window.append(x); if len(window) > cap: window.pop(0)
WinPush(w, x, cap) ==
    LET w1 == [w EXCEPT ![x] = @ + 1]
    IN  IF WinLen(w1) > cap
        THEN {[w1 EXCEPT ![y] = @ - 1] : y \in {z \in DOMAIN w1 : w1[z] > 0}}
        ELSE {w1}

\* sum(self.error_flags) / len(self.error_flags) > target_err
RollingErrAbove(flags) == 100 * WinSum(flags) > target_err_pct * WinLen(flags)

\* err_rate > target_err, with err_rate left at 0.0 below 20 flags
ErrRateAbove(flags) ==
    WinLen(flags) >= MinFlagsForErrRate /\ RollingErrAbove(flags)

\* avg_response_time < target_latency * 0.7
AvgFast(times) == 10 * WinSum(times) < 7 * target_latency * WinLen(times)

\* avg_response_time > target_latency * 1.7
AvgSlow(times) == 10 * WinSum(times) > 17 * target_latency * WinLen(times)

\* the chain with the latency checks placed before the error-rate check
TuneBranchLatencyFirst(times, flags) ==
    IF AvgFast(times) THEN "fast"
    ELSE IF AvgSlow(times) THEN "slow"
    ELSE IF ErrRateAbove(flags) THEN "err"
    ELSE "hold"

\* the branch of the if / elif chain that is taken
TuneBranch(times, flags) ==
    IF ErrRateAbove(flags) THEN "err"
    ELSE IF AvgFast(times) THEN "fast"
    ELSE IF AvgSlow(times) THEN "slow"
    ELSE "hold"

\* the assignments without the cap at max_size
TuneSizeUncapped(branch, size, maxsz) ==
    CASE branch = "err"  -> Max({size - 1, 1})
      [] branch = "fast" -> size + 1
      [] branch = "slow" -> Max({size - 1, 1})
      [] OTHER           -> size

\* the batch size a branch assigns
TuneSize(branch, size, maxsz) ==
    CASE branch = "err"  -> Max({size - 1, 1})
      [] branch = "fast" -> Min({size + 1, maxsz})
      [] branch = "slow" -> Max({size - 1, 1})
      [] OTHER           -> size

NoWindow(S) == [x \in S |-> 0]

NoLast == [kind |-> "none", before |-> 0, rolling_above |-> FALSE,
           avg_fast |-> FALSE, flags |-> 0]

TuneIdle ==
    /\ t_on = FALSE
    /\ adaptive_batch_size = TRUE
    /\ current_batch_size = 0
    /\ response_times = NoWindow(Latencies)
    /\ error_flags = NoWindow({0, 1})
    /\ t_elapsed = FALSE
    /\ t_calls = 0
    /\ t_last = NoLast

\* SmartBatchTranslator.__init__
TuneInit ==
    /\ MathIdle
    /\ BatchIdle
    /\ JobIdle
    /\ OrchIdle
    /\ FnIdle
    /\ t_on = TRUE
    /\ adaptive_batch_size \in BOOLEAN
    /\ current_batch_size \in 1..max_size(TuneWorkers)
    /\ response_times = NoWindow(Latencies)
    /\ error_flags = NoWindow({0, 1})
    /\ t_elapsed = TRUE
    /\ t_calls = 0
    /\ t_last = NoLast

\* _update_batch_size(response_time, is_error=...)
UpdateBatchSize(response_time, is_error) ==
    /\ t_on
    /\ t_calls < MaxCalls
    /\ t_calls' = t_calls + 1
    /\ UNCHANGED <<t_on, adaptive_batch_size>>
    /\ IF ~adaptive_batch_size
       THEN /\ t_last' = [NoLast EXCEPT !.kind = "off", !.before = current_batch_size]
            /\ UNCHANGED <<current_batch_size, response_times, error_flags, t_elapsed>>
       ELSE \E times \in WinPush(response_times, response_time, max_response_times),
               flags \in WinPush(error_flags, IF is_error THEN 1 ELSE 0, max_error_flags) :
            /\ response_times' = times
            /\ error_flags' = flags
            /\ LET seen(kind) ==
                       [kind |-> kind, before |-> current_batch_size,
                        rolling_above |-> RollingErrAbove(flags),
                        avg_fast |-> AvgFast(times), flags |-> WinLen(flags)]
               IN  IF ~t_elapsed
                   THEN /\ t_last' = seen("throttled")
                        /\ UNCHANGED <<current_batch_size, t_elapsed>>
                   ELSE /\ t_elapsed' = FALSE
                        /\ IF WinLen(times) >= MinTimesToTune
                           THEN LET b == TuneBranch(times, flags)
                                IN  /\ current_batch_size' =
                                          TuneSize(b, current_batch_size, max_size(TuneWorkers))
                                    /\ t_last' = seen(b)
                           ELSE /\ t_last' = seen("warmup")
                                /\ UNCHANGED current_batch_size
    /\ UNCHANGED <<mathVars, batchVars, jobVars, orchVars, fnVars>>

\* a second or more passes since the last tuning
TuneClock ==
    /\ t_on
    /\ ~t_elapsed
    /\ t_elapsed' = TRUE
    /\ UNCHANGED <<t_on, adaptive_batch_size, current_batch_size, response_times,
                   error_flags, t_calls, t_last>>
    /\ UNCHANGED <<mathVars, batchVars, jobVars, orchVars, fnVars>>

TuneCall == \E rt \in Latencies, e \in BOOLEAN : UpdateBatchSize(rt, e)

TuneNext == TuneCall \/ TuneClock

SpecTune == TuneInit /\ [][TuneNext]_vars

\* a call that got past the throttle and ran the tuning code
TunedLast == t_last.kind \in {"err", "fast", "slow", "hold"}

MathInit ==
    /\ TuneIdle
    /\ BatchIdle
    /\ JobIdle
    /\ OrchIdle
    /\ FnIdle
    /\ m_pc = "build"
    /\ m_ntok = 0
    /\ m_text = <<>>
    /\ m_prot = NoProt
    /\ m_out = <<>>

\* the caller extends the text by one token
MathAppend ==
    /\ m_pc = "build"
    /\ m_ntok < MaxTokens
    /\ \E tok \in Tokens : m_text' = m_text \o tok
    /\ m_ntok' = m_ntok + 1
    /\ UNCHANGED <<m_pc, m_prot, m_out>>
    /\ UNCHANGED <<tuneVars, batchVars, jobVars, orchVars, fnVars>>

\* protected = protect_math(text)
MathProtect ==
    /\ m_pc = "build"
    /\ m_prot' = protect_math(m_text)
    /\ m_pc' = "protected"
    /\ UNCHANGED <<m_ntok, m_text, m_out>>
    /\ UNCHANGED <<tuneVars, batchVars, jobVars, orchVars, fnVars>>

\* unprotect_math(protected.text, protected.mapping)
MathUnprotect ==
    /\ m_pc = "protected"
    /\ m_out' = unprotect_math(m_prot.text, m_prot.mapping)
    /\ m_pc' = "restored"
    /\ UNCHANGED <<m_ntok, m_text, m_prot>>
    /\ UNCHANGED <<tuneVars, batchVars, jobVars, orchVars, fnVars>>

MathNext == MathAppend \/ MathProtect \/ MathUnprotect

SpecMath == MathInit /\ [][MathNext]_vars

\* C1: for every text T, unprotect_math(protect_math(T).text,
\* protect_math(T).mapping) returns exactly T.
C1_RoundTrip == m_pc = "restored" => m_out = m_text

\* the non-overlapping math spans of a text, in scan order
MathSpans(text) == FilterSpans(SortSpans(CollectSpans(1, text)), -1)

\* the text with its k-th span replaced by {vk}, for k = n down to 1
RECURSIVE ReplacedInScanOrder(_, _, _)
ReplacedInScanOrder(spans, n, out) ==
    IF n = 0 THEN out
    ELSE ReplacedInScanOrder(spans, n - 1,
             SubSeq(out, 1, spans[n].s) \o Placeholder(n)
                 \o SubSeq(out, spans[n].e + 1, Len(out)))

\* C24: protect_math replaces the k-th math span of the text, counted from
\* the start, by {vk}, and its mapping has one entry per span, {vk} mapping
\* to the text of the k-th span.
C24_ScanOrderNumbering ==
    m_pc \in {"protected", "restored"} =>
        LET spans == MathSpans(m_text)
        IN  /\ m_prot.text = ReplacedInScanOrder(spans, Len(spans), m_text)
            /\ Len(m_prot.mapping) = Len(spans)
            /\ \A k \in 1..Len(spans) :
                  [key |-> Placeholder(k), val |-> spans[k].val] \in Range(m_prot.mapping)

\* ------------------------------------------------------------------------
\* Batch translators
\* (services/concurrent_translator.py ConcurrentTranslator.translate_batch,
\*  services/smart_batch_translator.py SmartBatchTranslator.translate_batch_smart)
\* A task is its index in the submitted list, which is also its block_id.
\* A translation is the block_id of the task whose text was translated;
\* 0 is None.  An exception is the number of the call that raised it.
\* _update_batch_size is taken here by its effect on current_batch_size:
\* any of the assignments of its if / elif chain, or none.
\* ------------------------------------------------------------------------

\* the largest number of submitted tasks
NumTasks == 2

\* max_workers of the translator
BatchWorkers == 1

\* max_retries of the translator (default, and what the orchestrator passes)
max_retries == 3

\* the block types of the submitted tasks
Types == {"title", "paragraph", "formula"}

Modes == {"concurrent", "priority", "grouping", "plain"}

\* type_priority_map.get(block_type or "", BlockPriority.PARAGRAPH)
get_block_priority(block_type) ==
    CASE block_type = "title"     -> 1
      [] block_type = "heading"   -> 2
      [] block_type = "caption"   -> 3
      [] block_type = "paragraph" -> 4
      [] block_type = "footnote"  -> 5
      [] OTHER                    -> 4

group_order == <<"title", "heading", "caption", "paragraph", "footnote">>

Indices(types) == [i \in 1..Len(types) |-> i]

\* prioritized.sort(key=(priority, created_at)): stable, by priority
RECURSIVE SortByPriority(_, _)
SortByPriority(idx, types) ==
    IF idx = <<>> THEN <<>>
    ELSE LET k == Min({a \in 1..Len(idx) : \A b \in 1..Len(idx) :
                          get_block_priority(types[idx[b]])
                              >= get_block_priority(types[idx[a]])})
         IN  <<idx[k]>> \o SortByPriority(RemoveAt(idx, k), types)

prioritize_tasks(types) == SortByPriority(Indices(types), types)

\* groups[block_type]: the tasks of one type, in submission order
group_tasks_by_type(types, ty) ==
    SelectSeq(Indices(types), LAMBDA i : types[i] = ty)

\* list[a : b] with 0-based a, b
Slice(l, a, b) == SubSeq(l, a + 1, Min({b, Len(l)}))

\* a batch that takes the next task whatever its priority
AnyPriority(priority, current_priority) == TRUE

\* p_task.priority == current_priority
SamePriority(priority, current_priority) == priority = current_priority

\* the for loop of priority mode up to its next await: the batch it forms
\* and the tasks it has not yet looked at
RECURSIVE TakeBatch(_, _, _, _, _)
TakeBatch(batch, rest, prio, cbs, types) ==
    IF rest = <<>> THEN [batch |-> batch, rest |-> rest]
    ELSE IF SamePriority(get_block_priority(types[Head(rest)]), prio) /\ Len(batch) < cbs
         THEN TakeBatch(Append(batch, Head(rest)), Tail(rest), prio, cbs, types)
         ELSE [batch |-> batch, rest |-> rest]

\* the loops of grouping mode up to their next await, from group gi, offset i
\* of a range with the given step (step 0: the range is not yet made)
RECURSIVE NextGroupBatch(_, _, _, _, _)
NextGroupBatch(gi, i, step, cbs, types) ==
    IF gi > Len(group_order) THEN [batch |-> <<>>, gi |-> gi, i |-> 0, step |-> 0]
    ELSE LET g == group_tasks_by_type(types, group_order[gi])
             st == IF step = 0 THEN cbs ELSE step
         IN  IF i < Len(g)
             THEN [batch |-> Slice(g, i, i + cbs), gi |-> gi, i |-> i + st, step |-> st]
             ELSE NextGroupBatch(gi + 1, 0, 0, cbs, types)

\* the batch the coordinator awaits next and its new position; an empty
\* batch: it returns
NextBatch(mode, coord, cbs, types) ==
    CASE mode \in {"concurrent", "plain"} ->
            IF coord.phase = "init"
            THEN [batch |-> Indices(types), coord |-> [coord EXCEPT !.phase = "running"]]
            ELSE [batch |-> <<>>, coord |-> [coord EXCEPT !.phase = "returned"]]
      [] mode = "priority" ->
            LET rest == IF coord.phase = "init" THEN prioritize_tasks(types)
                        ELSE coord.rest
            IN  IF rest = <<>>
                THEN [batch |-> <<>>, coord |-> [coord EXCEPT !.phase = "returned"]]
                ELSE LET tb == TakeBatch(<<Head(rest)>>, Tail(rest),
                                   get_block_priority(types[Head(rest)]), cbs, types)
                     IN  [batch |-> tb.batch,
                          coord |-> [coord EXCEPT !.phase = "running", !.rest = tb.rest]]
      [] mode = "grouping" ->
            LET nb == IF coord.phase = "init"
                      THEN NextGroupBatch(1, 0, 0, cbs, types)
                      ELSE NextGroupBatch(coord.gi, coord.i, coord.step, cbs, types)
            IN  [batch |-> nb.batch,
                 coord |-> [coord EXCEPT
                               !.phase = IF nb.batch = <<>> THEN "returned" ELSE "running",
                               !.gi = nb.gi, !.i = nb.i, !.step = nb.step]]

\* the coroutines gather creates for a batch
Spawn(tasks, batch) ==
    [i \in DOMAIN tasks |->
        IF i \in Range(batch) THEN [NoTask EXCEPT !.pc = "waiting"] ELSE tasks[i]]

\* a semaphore that never blocks
SemNeverBlocks(sem) == TRUE

\* async with self.semaphore: a waiting translate_one enters while a slot is free
SemCanAcquire(sem) == sem > 0

\* a slot that stays taken when translate_one returns
SemHeld(sem) == sem

\* leaving async with self.semaphore: the slot is free again
SemRelease(sem) == sem + 1

\* while retry_count <= self.max_retries
MayRetry(retry_count) == retry_count <= max_retries

\* the result reporting the count of failed calls
ExhaustedRetryCountNoDec(retry_count) == retry_count

\* retry_count of the result after the retries are used up
ExhaustedRetryCount(retry_count) == retry_count - 1

TuneOutcomes(size) ==
    {TuneSize(b, size, max_size(BatchWorkers)) : b \in {"err", "fast", "slow", "hold"}}

\* self._update_batch_size(...) as translate_one calls it (smart translator only)
BatchTune ==
    IF b_mode = "concurrent" THEN UNCHANGED current_batch_size
    ELSE current_batch_size' \in TuneOutcomes(current_batch_size)

BatchFrame == UNCHANGED <<mathVars, tuneRest, jobVars, orchVars, fnVars, b_mode, b_types>>

\* the translator is constructed and translate_batch / translate_batch_smart
\* is called with a task list
BatchInit ==
    /\ MathIdle
    /\ JobIdle
    /\ OrchIdle
    /\ FnIdle
    /\ t_on = FALSE
    /\ adaptive_batch_size = TRUE
    /\ response_times = NoWindow(Latencies)
    /\ error_flags = NoWindow({0, 1})
    /\ t_elapsed = FALSE
    /\ t_calls = 0
    /\ t_last = NoLast
    /\ b_mode \in Modes
    /\ \E n \in 1..NumTasks : b_types \in [1..n -> Types]
    /\ current_batch_size \in
          IF b_mode = "concurrent" THEN {0} ELSE 1..max_size(BatchWorkers)
    /\ semaphore = BatchWorkers
    /\ b_task = [i \in 1..Len(b_types) |-> NoTask]
    /\ b_batch = <<>>
    /\ b_coord = NoCoord
    /\ b_results = <<>>
    /\ b_completed = 0
    /\ b_cb = <<>>

\* translate_batch / translate_batch_smart runs up to its first await
BatchStart ==
    /\ b_mode # "off"
    /\ b_coord.phase = "init"
    /\ LET nb == NextBatch(b_mode, b_coord, current_batch_size, b_types)
       IN  /\ b_batch' = nb.batch
           /\ b_coord' = nb.coord
           /\ b_task' = Spawn(b_task, nb.batch)
    /\ b_completed' = 0
    /\ UNCHANGED <<semaphore, b_results, b_cb, current_batch_size>>
    /\ BatchFrame

\* translate_one: async with self.semaphore, then the first translate call
Acquire(i) ==
    /\ b_coord.phase = "running"
    /\ i \in Range(b_batch)
    /\ b_task[i].pc = "waiting"
    /\ SemCanAcquire(semaphore)
    /\ semaphore' = semaphore - 1
    /\ b_task' = [b_task EXCEPT ![i].pc = "calling", ![i].calls = 1]
    /\ UNCHANGED <<b_batch, b_coord, b_results, b_completed, b_cb, current_batch_size>>
    /\ BatchFrame

\* translate_one: await translate_func(...) returns a translation
CallReturns(i) ==
    /\ b_coord.phase = "running"
    /\ i \in Range(b_batch)
    /\ b_task[i].pc = "calling"
    /\ BatchTune
    /\ b_task' = [b_task EXCEPT
          ![i].pc = "done",
          ![i].result = [block_id |-> i, translation |-> i, error |-> 0,
                         retry_count |-> b_task[i].retry_count]]
    /\ b_completed' = b_completed + 1
    /\ b_cb' = Append(b_cb, <<b_completed + 1, Len(b_types)>>)
    /\ semaphore' = SemRelease(semaphore)
    /\ UNCHANGED <<b_batch, b_coord, b_results>>
    /\ BatchFrame

\* translate_one: await translate_func(...) raises
CallRaises(i) ==
    /\ b_coord.phase = "running"
    /\ i \in Range(b_batch)
    /\ b_task[i].pc = "calling"
    /\ BatchTune
    /\ LET rc == b_task[i].retry_count + 1
           exc == b_task[i].calls
       IN  IF MayRetry(rc)
           THEN /\ b_task' = [b_task EXCEPT
                      ![i].pc = "sleeping", ![i].retry_count = rc,
                      ![i].fails = @ + 1, ![i].last_error = exc]
                /\ UNCHANGED <<b_completed, b_cb, semaphore>>
           ELSE /\ b_task' = [b_task EXCEPT
                      ![i].pc = "done", ![i].retry_count = rc,
                      ![i].fails = @ + 1, ![i].last_error = exc,
                      ![i].result = [block_id |-> i, translation |-> 0, error |-> exc,
                                     retry_count |-> ExhaustedRetryCount(rc)]]
                /\ b_completed' = b_completed + 1
                /\ b_cb' = Append(b_cb, <<b_completed + 1, Len(b_types)>>)
                /\ semaphore' = SemRelease(semaphore)
    /\ UNCHANGED <<b_batch, b_coord, b_results>>
    /\ BatchFrame

\* translate_one: asyncio.sleep(wait_time) ends, the next translate call starts
Wake(i) ==
    /\ b_coord.phase = "running"
    /\ i \in Range(b_batch)
    /\ b_task[i].pc = "sleeping"
    /\ b_task' = [b_task EXCEPT ![i].pc = "calling", ![i].calls = @ + 1]
    /\ UNCHANGED <<semaphore, b_batch, b_coord, b_results, b_completed, b_cb,
                   current_batch_size>>
    /\ BatchFrame

\* gather returns: results.extend(batch_results), then the coordinator runs
\* up to its next await or returns
BatchDone ==
    /\ b_coord.phase = "running"
    /\ \A i \in Range(b_batch) : b_task[i].pc = "done"
    /\ b_results' = b_results \o [k \in 1..Len(b_batch) |-> b_task[b_batch[k]].result]
    /\ LET done == b_coord.completed + Len(b_batch)
           nb == NextBatch(b_mode, [b_coord EXCEPT !.completed = done],
                           current_batch_size, b_types)
       IN  /\ b_batch' = nb.batch
           /\ b_coord' = nb.coord
           /\ b_task' = Spawn(b_task, nb.batch)
           /\ b_completed' = IF nb.batch = <<>> THEN b_completed ELSE done
    /\ UNCHANGED <<semaphore, b_cb, current_batch_size>>
    /\ BatchFrame

BatchStep ==
    \E i \in 1..NumTasks : Acquire(i) \/ CallReturns(i) \/ CallRaises(i) \/ Wake(i)

BatchNext == BatchStart \/ BatchStep \/ BatchDone

SpecBatch == BatchInit /\ [][BatchNext]_vars

\* The event loop runs a coroutine that is ready, every pending provider
\* call returns or raises and every asyncio.sleep ends: while a step of the
\* batch is possible, one is taken.
SpecBatchFair == BatchInit /\ [][BatchNext]_vars /\ WF_vars(BatchNext)

Done(i) == i \in DOMAIN b_task /\ b_task[i].pc = "done"

\* C2: a task whose translate function fails k times and then succeeds
\* (k <= max_retries) yields the translation with retry_count = k; a task
\* whose translate function always fails is called exactly max_retries + 1
\* times and yields translation None, the last exception as error and
\* retry_count = max_retries.
C2_RetryCount ==
    \A i \in DOMAIN b_task :
        Done(i) =>
            IF b_task[i].result.translation # 0
            THEN /\ b_task[i].fails <= max_retries
                 /\ b_task[i].calls = b_task[i].fails + 1
                 /\ b_task[i].result.translation = i
                 /\ b_task[i].result.error = 0
                 /\ b_task[i].result.retry_count = b_task[i].fails
            ELSE /\ b_task[i].calls = max_retries + 1
                 /\ b_task[i].fails = max_retries + 1
                 /\ b_task[i].result.error = b_task[i].calls
                 /\ b_task[i].result.retry_count = max_retries

\* C2 witness: one task succeeded after two failures and another used up
\* its retries.
C2_Witness ==
    /\ \E i \in DOMAIN b_task :
          Done(i) /\ b_task[i].result.translation # 0 /\ b_task[i].fails = max_retries
    /\ \E i \in DOMAIN b_task :
          Done(i) /\ b_task[i].result.translation = 0

\* C3: the i-th element of the returned list is the result of the i-th
\* submitted task, in every mode.
C3_SubmissionOrder ==
    b_coord.phase = "returned" =>
        /\ Len(b_results) = Len(b_types)
        /\ \A i \in 1..Len(b_types) : b_results[i].block_id = i

InFlight == {i \in DOMAIN b_task : b_task[i].pc = "calling"}

Sleeping == {i \in DOMAIN b_task : b_task[i].pc = "sleeping"}

\* C4: the number of translate calls in flight is at most max_workers.
C4_InFlightBound == Cardinality(InFlight) <= BatchWorkers

\* C4 witness: every slot is taken by a call in flight, one of them a retry
\* after a backoff sleep, while a task of a batch larger than max_workers
\* waits and the adaptive batch size is above max_workers.
C4_Witness ==
    /\ b_mode \in {"priority", "grouping"}
    /\ current_batch_size > BatchWorkers
    /\ Len(b_batch) > BatchWorkers
    /\ Cardinality(InFlight) = BatchWorkers
    /\ \E i \in InFlight : b_task[i].retry_count > 0
    /\ \E i \in DOMAIN b_task : b_task[i].pc = "waiting"

\* C26: in priority, grouping and plain mode translate_batch_smart returns
\* exactly one result per submitted task, whatever the tasks' block types.
C26_OneResultPerTask ==
    (b_mode \in {"priority", "grouping", "plain"} /\ b_coord.phase = "returned") =>
        /\ Len(b_results) = Len(b_types)
        /\ \A i \in 1..Len(b_types) :
              Cardinality({k \in 1..Len(b_results) : b_results[k].block_id = i}) = 1

\* C27: the progress callback is invoked with done = 1, 2, ... and the same
\* total, the number of submitted tasks, and when the call has returned it
\* has been invoked once per task, the last time with done = total.
C27_ProgressCounts ==
    b_mode # "off" =>
        /\ \A k \in 1..Len(b_cb) : b_cb[k] = <<k, Len(b_types)>>
        /\ b_coord.phase = "returned" => Len(b_cb) = Len(b_types)

\* translate_one of task i has made a translate call
Started(i) == i \in DOMAIN b_task /\ b_task[i].calls > 0

\* C20: in priority mode no translate call of a task starts before every
\* task of a smaller priority value has produced its result, and the tasks
\* of the batch awaited together all have one priority value.
C20_PriorityOrder ==
    b_mode = "priority" =>
        /\ \A i, j \in DOMAIN b_task :
              (get_block_priority(b_types[i]) < get_block_priority(b_types[j])
               /\ Started(j)) => Done(i)
        /\ \A i, j \in Range(b_batch) :
              get_block_priority(b_types[i]) = get_block_priority(b_types[j])

\* C20 witness: a paragraph submitted before a title; the title has its
\* result and the paragraph's translate call is in flight, alone in its
\* batch although the batch size allows two tasks.
C20_Witness ==
    /\ b_mode = "priority"
    /\ Len(b_types) = 2
    /\ b_types[1] = "paragraph"
    /\ b_types[2] = "title"
    /\ current_batch_size >= 2
    /\ Done(2)
    /\ b_task[1].pc = "calling"
    /\ b_batch = <<1>>

NumBlocks == 2

\* max_retries of the Celery task
task_max_retries == 3

Stages == {"pending", "parsing", "translating", "composing", "exporting",
           "success", "failed", "canceled"}

NewBlock(translatable) ==
    [translatable |-> translatable, translation |-> "none",
     translation_failed |-> FALSE]

\* all_blocks: the blocks with text that are not header, footer or footnote
all_blocks(blocks) == {i \in 1..Len(blocks) : blocks[i].translatable}

\* the next block of the loop after position i (Len + 1: the loop is over)
NextBlockAfter(blocks, i) ==
    LET later == {k \in all_blocks(blocks) : k > i}
    IN  IF later = {} THEN Len(blocks) + 1 ELSE Min(later)

\* an exception raised by the translation of a block is caught in the loop
BlockErrorEscapes == FALSE

BlockErrorCaught == TRUE

\* create_translate_job: repo.create_job, run_translate_job.delay
JobInit ==
    /\ MathIdle
    /\ TuneIdle
    /\ BatchIdle
    /\ OrchIdle
    /\ FnIdle
    /\ j_pc = "queued"
    /\ j_stage = "pending"
    /\ j_control = "running"
    /\ \E n \in 0..NumBlocks : \E tr \in [1..n -> BOOLEAN] :
          j_blocks = [i \in 1..n |-> NewBlock(tr[i])]
    /\ j_idx = 0
    /\ j_done = 0
    /\ j_failed = 0
    /\ j_retries = 0
    /\ j_ret = NoRet
    /\ j_cancel_pc = "idle"
    /\ j_obs = NoObs

JobFrame == UNCHANGED <<mathVars, tuneVars, batchVars, orchVars, fnVars>>

\* the task starts: repo.update_job(stage=parsing, ..., control="running")
JobBegin ==
    /\ j_pc = "queued"
    /\ j_stage' = "parsing"
    /\ j_control' = "running"
    /\ j_done' = 0
    /\ j_failed' = 0
    /\ j_idx' = 0
    /\ j_blocks' = [i \in 1..Len(j_blocks) |-> NewBlock(j_blocks[i].translatable)]
    /\ j_obs' = [NoObs EXCEPT !.cancel_requested = j_obs.cancel_requested]
    /\ j_pc' = "begun"
    /\ UNCHANGED <<j_retries, j_ret, j_cancel_pc>>
    /\ JobFrame

\* repo.load_document_json, all_blocks, then stage translating, or success
\* for a document with nothing to translate; or an exception
JobLoad ==
    /\ j_pc = "begun"
    /\ \/ /\ j_pc' = "except"
          /\ j_obs' = [j_obs EXCEPT !.fatal = TRUE]
          /\ UNCHANGED <<j_stage, j_idx, j_ret>>
       \/ /\ all_blocks(j_blocks) = {}
          /\ j_stage' = "success"
          /\ j_ret' = [status |-> "success", failed_count |-> -1]
          /\ j_pc' = "returned"
          /\ UNCHANGED <<j_idx, j_obs>>
       \/ /\ all_blocks(j_blocks) # {}
          /\ j_stage' = "translating"
          /\ j_idx' = NextBlockAfter(j_blocks, 0)
          /\ j_pc' = "loop"
          /\ UNCHANGED <<j_ret, j_obs>>
    /\ UNCHANGED <<j_control, j_blocks, j_done, j_failed, j_retries, j_cancel_pc>>
    /\ JobFrame

\* translate_all: the pause / cancel check before a block
JobReadControl ==
    /\ j_pc = "loop"
    /\ CASE j_control = "paused" ->
              /\ j_obs' = [j_obs EXCEPT !.saw_paused = TRUE]
              /\ UNCHANGED <<j_pc, j_stage>>
         [] j_control = "canceled" ->
              /\ j_stage' = "canceled"
              /\ j_obs' = [j_obs EXCEPT !.saw_cancel = TRUE]
              /\ j_pc' = "after_loop"
         [] OTHER ->
              /\ j_pc' = "ready"
              /\ UNCHANGED <<j_stage, j_obs>>
    /\ UNCHANGED <<j_control, j_blocks, j_idx, j_done, j_failed, j_retries, j_ret,
                   j_cancel_pc>>
    /\ JobFrame

\* translate_all: TranslateMeta, orch.translate_text up to the provider
\* call (protect_math, repo.tm_get): the call to the provider starts
JobCallStart ==
    /\ j_pc = "ready"
    /\ j_pc' = "calling"
    /\ UNCHANGED <<j_stage, j_control, j_blocks, j_idx, j_done, j_failed, j_retries,
                   j_ret, j_cancel_pc, j_obs>>
    /\ JobFrame

\* translate_all: orch.translate_text returns; progress_callback
JobCallReturns ==
    /\ j_pc = "calling"
    /\ j_blocks' = [j_blocks EXCEPT ![j_idx].translation = "ok"]
    /\ j_done' = j_done + 1
    /\ j_idx' = NextBlockAfter(j_blocks, j_idx)
    /\ j_pc' = IF j_idx' > Len(j_blocks) THEN "after_loop" ELSE "loop"
    /\ UNCHANGED <<j_stage, j_control, j_failed, j_retries, j_ret, j_cancel_pc, j_obs>>
    /\ JobFrame

\* translate_all: orch.translate_text raises; the except branch of the loop
JobCallRaises ==
    /\ j_pc = "calling"
    /\ IF BlockErrorCaught
       THEN /\ j_blocks' = [j_blocks EXCEPT ![j_idx].translation = "marker",
                                            ![j_idx].translation_failed = TRUE]
            /\ j_failed' = j_failed + 1
            /\ j_done' = j_done + 1
            /\ j_idx' = NextBlockAfter(j_blocks, j_idx)
            /\ j_pc' = IF j_idx' > Len(j_blocks) THEN "after_loop" ELSE "loop"
       ELSE /\ j_pc' = "except"
            /\ UNCHANGED <<j_blocks, j_failed, j_done, j_idx>>
    /\ j_obs' = [j_obs EXCEPT !.raised = @ + 1]
    /\ UNCHANGED <<j_stage, j_control, j_retries, j_ret, j_cancel_pc>>
    /\ JobFrame

\* after asyncio.run(translate_all()): repo.update_job(stage=composing)
JobCompose ==
    /\ j_pc = "after_loop"
    /\ j_stage' = "composing"
    /\ j_pc' = "composing"
    /\ UNCHANGED <<j_control, j_blocks, j_idx, j_done, j_failed, j_retries, j_ret,
                   j_cancel_pc, j_obs>>
    /\ JobFrame

\* repo.save_document_json, then stage success and return; or an exception
JobSave ==
    /\ j_pc = "composing"
    /\ \/ /\ j_pc' = "except"
          /\ j_obs' = [j_obs EXCEPT !.fatal = TRUE]
          /\ UNCHANGED <<j_stage, j_ret>>
       \/ /\ j_stage' = "success"
          /\ j_ret' = [status |-> "success",
                       failed_count |-> IF j_failed > 0 THEN j_failed ELSE -1]
          /\ j_pc' = "returned"
          /\ UNCHANGED j_obs
    /\ UNCHANGED <<j_control, j_blocks, j_idx, j_done, j_failed, j_retries, j_cancel_pc>>
    /\ JobFrame

\* the outer except: stage failed, raise; Celery retries the task
\* (autoretry_for, max_retries) or gives up
JobExcept ==
    /\ j_pc = "except"
    /\ j_stage' = "failed"
    /\ j_obs' = [j_obs EXCEPT !.wrote_failed = TRUE]
    /\ IF j_retries < task_max_retries
       THEN j_retries' = j_retries + 1 /\ j_pc' = "queued"
       ELSE j_pc' = "dead" /\ UNCHANGED j_retries
    /\ UNCHANGED <<j_control, j_blocks, j_idx, j_done, j_failed, j_ret, j_cancel_pc>>
    /\ JobFrame

\* pause_job: repo.set_job_control(job_id, "paused")
pause_job ==
    /\ j_pc # "off"
    /\ j_control' = "paused"
    /\ UNCHANGED <<j_pc, j_stage, j_blocks, j_idx, j_done, j_failed, j_retries, j_ret,
                   j_cancel_pc, j_obs>>
    /\ JobFrame

\* resume_job: repo.set_job_control(job_id, "running")
resume_job ==
    /\ j_pc # "off"
    /\ j_control' = "running"
    /\ UNCHANGED <<j_pc, j_stage, j_blocks, j_idx, j_done, j_failed, j_retries, j_ret,
                   j_cancel_pc, j_obs>>
    /\ JobFrame

\* cancel_job, first part: revoke(terminate=True) best effort (the task is
\* killed or goes on), then repo.set_job_control(job_id, "canceled")
cancel_job_control ==
    /\ j_pc # "off"
    /\ j_cancel_pc = "idle"
    /\ j_pc' \in IF j_pc \in {"returned", "dead", "revoked"} THEN {j_pc}
                 ELSE {j_pc, "revoked"}
    /\ j_control' = "canceled"
    /\ j_cancel_pc' = "control_set"
    /\ j_obs' = [j_obs EXCEPT !.cancel_requested = TRUE]
    /\ UNCHANGED <<j_stage, j_blocks, j_idx, j_done, j_failed, j_retries, j_ret>>
    /\ JobFrame

\* cancel_job, second part: repo.update_job(stage=canceled)
cancel_job_stage ==
    /\ j_cancel_pc = "control_set"
    /\ j_stage' = "canceled"
    /\ j_cancel_pc' = "idle"
    /\ UNCHANGED <<j_pc, j_control, j_blocks, j_idx, j_done, j_failed, j_retries, j_ret,
                   j_obs>>
    /\ JobFrame

JobTask ==
    \/ JobBegin
    \/ JobLoad
    \/ JobReadControl
    \/ JobCallStart
    \/ JobCallReturns
    \/ JobCallRaises
    \/ JobCompose
    \/ JobSave
    \/ JobExcept

JobApi == pause_job \/ resume_job \/ cancel_job_control \/ cancel_job_stage

JobNext == JobTask \/ JobApi

SpecJob == JobInit /\ [][JobNext]_vars

\* C6: when the task reads control = canceled between two blocks, the
\* job's stage is canceled when the task function returns.
C6_CanceledAtReturn ==
    (j_pc = "returned" /\ j_obs.saw_cancel) => j_stage = "canceled"

StageRank(st) ==
    CASE st = "pending"     -> 0
      [] st = "parsing"     -> 1
      [] st = "translating" -> 2
      [] st = "composing"   -> 3
      [] OTHER              -> 4

\* C7: every write of the job's stage moves it forward in the order
\* pending, parsing, translating, composing, (success | failed | canceled),
\* and a stage of success, failed or canceled is never changed.
C7_StageForward ==
    [][j_stage' # j_stage => StageRank(j_stage) < StageRank(j_stage')]_vars

\* the blocks whose translation raised carry the failure marker
Marked == {i \in 1..Len(j_blocks) : j_blocks[i].translation_failed}

\* C8: a block whose translation raises gets the failure marker and
\* translation_failed; unless the run is canceled every other translatable
\* block is still attempted; the task returns success with a failed count
\* equal to the number of blocks whose translation raised, and unless
\* cancel_job was called the job's stage is then success; the task writes
\* stage failed only for an error outside the block loop.
C8_BlockFailureIsolated ==
    /\ \A i \in 1..Len(j_blocks) :
          j_blocks[i].translation_failed <=> j_blocks[i].translation = "marker"
    /\ j_pc \in {"loop", "ready", "calling", "after_loop", "composing", "returned",
                 "except"}
          => Cardinality(Marked) = j_obs.raised /\ j_failed = j_obs.raised
    /\ j_obs.wrote_failed => j_obs.fatal
    /\ (j_pc = "returned" /\ j_obs.raised > 0) =>
          /\ j_ret = [status |-> "success", failed_count |-> j_obs.raised]
          /\ ~j_obs.cancel_requested => j_stage = "success"
          /\ ~j_obs.saw_cancel =>
                \A i \in all_blocks(j_blocks) : j_blocks[i].translation # "none"

\* C8 witness: the task returned success although the first block's
\* translation raised, with a later block translated.
C8_Witness ==
    /\ j_pc = "returned"
    /\ j_stage = "success"
    /\ Len(j_blocks) >= 2
    /\ j_blocks[1].translation = "marker"
    /\ j_blocks[2].translation = "ok"
    /\ j_ret.failed_count = 1
    /\ ~j_obs.cancel_requested

\* C22: a provider call starts only after a control read that returned
\* running and not while control is paused; a call in flight when control
\* becomes paused or canceled stays in flight; and when a call in flight
\* ends, its block holds its translation (or the failure marker).
C22_ControlBetweenBlocks ==
    [][/\ (j_pc' = "calling" /\ j_pc # "calling")
            => (j_pc = "ready" /\ j_control # "paused")
       /\ (j_pc = "calling" /\ j_control' # j_control
              /\ j_control' \in {"paused", "canceled"})
            => j_pc' = "calling"
       /\ (j_pc = "calling" /\ j_pc' # "calling")
            => j_blocks'[j_idx].translation # "none"]_vars

\* ------------------------------------------------------------------------
\* Orchestrator with translation memory
\* (services/orchestrator.py translate_text, translate_blocks_batch
\*  translate_func; repo.py tm_get, tm_set)
\* The calls run as coroutines of one event loop: a call runs without
\* interruption up to its await of provider.translate and from the
\* provider's answer to its end.  The calls share provider and parameters,
\* so the cache key is the protected source text.
\* ------------------------------------------------------------------------

\* the number of concurrent calls
OrchCalls == 2

\* the number of different protected source texts
OrchKeys == 2

Fns == {"translate_text", "translate_func"}

NewCall(key) ==
    [pc |-> "start", key |-> key, outcome |-> "none", source |-> "none",
     tm_raised |-> FALSE, provider_raised |-> FALSE]

OrchInit ==
    /\ MathIdle
    /\ TuneIdle
    /\ BatchIdle
    /\ JobIdle
    /\ FnIdle
    /\ o_fn \in Fns
    /\ \E keys \in [1..OrchCalls -> 1..OrchKeys] :
          o_task = [i \in 1..OrchCalls |-> NewCall(keys[i])]
    /\ translation_memory = [k \in 1..OrchKeys |-> FALSE]
    /\ o_calls = [k \in 1..OrchKeys |-> 0]

OrchFrame == UNCHANGED <<mathVars, tuneVars, batchVars, jobVars, fnVars, o_fn>>

\* repo.tm_get: the cached translation, None, or an exception; in both
\* functions the call is outside any try, so an exception leaves the function
TmGet(i) ==
    /\ o_task[i].pc = "start"
    /\ \/ o_task' = [o_task EXCEPT ![i].pc = "done", ![i].outcome = "raised",
                                   ![i].tm_raised = TRUE]
       \/ /\ translation_memory[o_task[i].key]
          /\ o_task' = [o_task EXCEPT ![i].pc = "done", ![i].outcome = "returned",
                                      ![i].source = "cache"]
       \/ /\ ~translation_memory[o_task[i].key]
          /\ o_task' = [o_task EXCEPT ![i].pc = "awaiting"]
    /\ o_calls' = IF o_task'[i].pc = "awaiting"
                  THEN [o_calls EXCEPT ![o_task[i].key] = @ + 1]
                  ELSE o_calls
    /\ UNCHANGED translation_memory
    /\ OrchFrame

\* provider.translate returns; repo.tm_set stores or raises.  translate_text
\* logs the exception of tm_set and raises it again, translate_func has no
\* handler: in both the exception leaves the function
ProviderReturns(i) ==
    /\ o_task[i].pc = "awaiting"
    /\ \/ /\ translation_memory' = [translation_memory EXCEPT ![o_task[i].key] = TRUE]
          /\ o_task' = [o_task EXCEPT ![i].pc = "done", ![i].outcome = "returned",
                                      ![i].source = "provider"]
       \/ /\ o_task' = [o_task EXCEPT ![i].pc = "done", ![i].outcome = "raised",
                                      ![i].tm_raised = TRUE]
          /\ UNCHANGED translation_memory
    /\ UNCHANGED o_calls
    /\ OrchFrame

\* provider.translate raises
ProviderRaises(i) ==
    /\ o_task[i].pc = "awaiting"
    /\ o_task' = [o_task EXCEPT ![i].pc = "done", ![i].outcome = "raised",
                                ![i].provider_raised = TRUE]
    /\ UNCHANGED <<translation_memory, o_calls>>
    /\ OrchFrame

OrchStep == \E i \in 1..OrchCalls : TmGet(i) \/ ProviderReturns(i) \/ ProviderRaises(i)

OrchNext == OrchStep

SpecOrch == OrchInit /\ [][OrchNext]_vars

\* C9: a call in which tm_get or tm_set raised, and the provider did not,
\* still returns the provider's translation.
C9_CacheFailureTolerated ==
    \A i \in 1..Len(o_task) :
        (o_task[i].pc = "done" /\ o_task[i].tm_raised /\ ~o_task[i].provider_raised)
            => (o_task[i].outcome = "returned" /\ o_task[i].source = "provider")

NoRaise == \A i \in 1..Len(o_task) : o_task[i].outcome # "raised"

\* C10: as long as no call has raised, provider.translate is invoked at
\* most once for one key, whatever the number of concurrent calls with it.
C10_AtMostOnce ==
    NoRaise => \A k \in DOMAIN o_calls : o_calls[k] <= 1

\* ------------------------------------------------------------------------
\* Functions called on one input: the other parts stay idle
\* ------------------------------------------------------------------------

FnOthersIdle ==
    /\ MathIdle
    /\ TuneIdle
    /\ BatchIdle
    /\ JobIdle
    /\ OrchIdle

\* ------------------------------------------------------------------------
\* Cache key (services/cache_utils.py normalize_params_recursively,
\* serialize_params, build_cache_key; repo.py tm_get, tm_set)
\* A parameter value is [t, v, items]: t is "int" or "str" with the text
\* of the value in v, or "dict" or "list" with its entries in items, in
\* insertion order; an entry is [k, v] (k is "" in a list).
\* A string is the sequence of its pieces.
\* ------------------------------------------------------------------------

\* the longest list inside a parameter dict
MaxListLen == 1

\* the keys of the dicts, in the order of sorted()
KeyOrder == <<"a", "b">>

KeyRank(k) == CHOOSE i \in 1..Len(KeyOrder) : KeyOrder[i] = k

Atom(t, v) == [t |-> t, v |-> v, items |-> <<>>]

Dict(items) == [t |-> "dict", v |-> "", items |-> items]

List(items) == [t |-> "list", v |-> "", items |-> items]

Perms(n) == {f \in [1..n -> 1..n] : \A i, j \in 1..n : f[i] = f[j] => i = j}

\* the dicts with keys among KeyOrder, in any insertion order, and values in vals
DictsOver(vals) ==
    {Dict(<<>>)} \cup
    UNION {{Dict([i \in 1..n |-> [k |-> KeyOrder[pi[i]], v |-> vs[i]]]) :
                pi \in {f \in [1..n -> 1..Len(KeyOrder)] :
                            \A i, j \in 1..n : f[i] = f[j] => i = j},
                vs \in [1..n -> vals]} : n \in 1..Len(KeyOrder)}

ListsOver(vals) ==
    UNION {{List([i \in 1..n |-> [k |-> "", v |-> vs[i]]]) : vs \in [1..n -> vals]} :
              n \in 1..MaxListLen}

ParamAtoms == {Atom("int", "1"), Atom("str", "x")}

\* dicts of two entries with atom values
ParamInner == {d \in DictsOver(ParamAtoms) : Len(d.items) = Len(KeyOrder)}

\* translate_params: a dict whose values are atoms, dicts, or lists of dicts
ParamDicts == DictsOver(ParamAtoms \cup ParamInner \cup ListsOver(ParamInner))

\* the keys of a dict in the order used by the serialisation, here insertion order
insertion_keys(items) == [i \in 1..Len(items) |-> i]

\* sorted(obj.keys()): the positions of the entries, by ascending key
sorted_keys(items) ==
    [i \in 1..Len(items) |->
        CHOOSE j \in 1..Len(items) :
            Cardinality({m \in 1..Len(items) :
                            KeyRank(items[m].k) < KeyRank(items[j].k)}) = i - 1]

RECURSIVE normalize_params_recursively(_)
normalize_params_recursively(obj) ==
    IF obj.t = "dict"
    THEN LET ord == sorted_keys(obj.items)
         IN  Dict([i \in 1..Len(obj.items) |->
                      [k |-> obj.items[ord[i]].k,
                       v |-> normalize_params_recursively(obj.items[ord[i]].v)]])
    ELSE IF obj.t = "list"
    THEN List([i \in 1..Len(obj.items) |->
                  [k |-> "", v |-> normalize_params_recursively(obj.items[i].v)]])
    ELSE obj

RECURSIVE JoinPieces(_)
JoinPieces(parts) ==
    IF parts = <<>> THEN <<>>
    ELSE IF Len(parts) = 1 THEN parts[1]
    ELSE parts[1] \o <<",">> \o JoinPieces(Tail(parts))

\* json.dumps(obj, ensure_ascii=False, sort_keys=True, separators=(",", ":"))
RECURSIVE json_dumps(_)
json_dumps(obj) ==
    CASE obj.t = "dict" ->
            LET ord == sorted_keys(obj.items)
            IN  <<"{">> \o
                JoinPieces([i \in 1..Len(obj.items) |->
                              <<"\"", obj.items[ord[i]].k, "\"", ":">> \o
                              json_dumps(obj.items[ord[i]].v)]) \o
                <<"}">>
      [] obj.t = "list" ->
            <<"[">> \o
            JoinPieces([i \in 1..Len(obj.items) |-> json_dumps(obj.items[i].v)]) \o
            <<"]">>
      [] obj.t = "str" -> <<"\"", obj.v, "\"">>
      [] OTHER -> <<obj.v>>

serialize_params(params) == json_dumps(normalize_params_recursively(params))

build_cache_key(translate_engine, translate_params, original_text) ==
    <<translate_engine, "|||">> \o translate_params \o <<"|||", original_text>>

\* the same nested value with the entries of every dict in another order
RECURSIVE Reorderings(_)
Reorderings(obj) ==
    IF obj.t = "dict"
    THEN LET n == Len(obj.items)
             sub == [i \in 1..n |-> Reorderings(obj.items[i].v)]
             all == UNION {sub[i] : i \in 1..n}
         IN  {Dict([i \in 1..n |-> [k |-> obj.items[pi[i]].k, v |-> vs[pi[i]]]]) :
                 pi \in Perms(n),
                 vs \in {w \in [1..n -> all] : \A i \in 1..n : w[i] \in sub[i]}}
    ELSE IF obj.t = "list"
    THEN LET n == Len(obj.items)
             sub == [i \in 1..n |-> Reorderings(obj.items[i].v)]
             all == UNION {sub[i] : i \in 1..n}
         IN  {List([i \in 1..n |-> [k |-> "", v |-> vs[i]]]) :
                 vs \in {w \in [1..n -> all] : \A i \in 1..n : w[i] \in sub[i]}}
    ELSE {obj}

\* two calls with parameter dicts that are the same mapping: p for tm_set,
\* q for tm_get; the translation memory is empty
CacheInit ==
    /\ FnOthersIdle
    /\ f_part = "cache"
    /\ f_pc = "start"
    /\ \E p \in ParamDicts : \E q \in Reorderings(p) : f_in = [p |-> p, q |-> q]
    /\ f_mem = {}
    /\ f_out = "none"

\* InMemoryRepo.tm_set(engine, p, text, translated)
tm_set ==
    /\ f_part = "cache"
    /\ f_pc = "start"
    /\ f_mem' = f_mem \cup {build_cache_key("engine", serialize_params(f_in.p), "text")}
    /\ f_pc' = "stored"
    /\ UNCHANGED <<f_in, f_out>>
    /\ FnFrame

\* InMemoryRepo.tm_get(engine, q, text)
tm_get ==
    /\ f_part = "cache"
    /\ f_pc = "stored"
    /\ f_out' = IF build_cache_key("engine", serialize_params(f_in.q), "text") \in f_mem
                THEN "hit" ELSE "miss"
    /\ f_pc' = "looked"
    /\ UNCHANGED <<f_in, f_mem>>
    /\ FnFrame

CacheNext == tm_set \/ tm_get

SpecCache == CacheInit /\ [][CacheNext]_vars

NumLayoutBlocks == 3

\* page widths on both sides of the one / two / three column limits
Widths == {399, 400, 699, 700}

\* centre of the block left of the middle of the page: (x0 + x1) / 2 < page_width / 2
LeftOfMiddle(x0, x1, page_width) == x0 + x1 < page_width

get_column_index_single(x0, x1, page_width) == 0

get_column_index_from_bbox(x0, x1, page_width) ==
    IF page_width < 400 THEN 0
    ELSE IF page_width < 700
    THEN (IF LeftOfMiddle(x0, x1, page_width) THEN 0 ELSE 1)
    ELSE Min({(3 * (x0 + x1)) \div (2 * page_width), 2})

\* get_sort_key: (column_index, y_pos, x_pos)
get_sort_key(block, page_width) ==
    <<get_column_index_from_bbox(block.x0, block.x1, page_width), block.y0, block.x0>>

\* tuple comparison of two sort keys
KeyLess(ka, kb) ==
    \/ ka[1] < kb[1]
    \/ ka[1] = kb[1] /\ ka[2] < kb[2]
    \/ ka[1] = kb[1] /\ ka[2] = kb[2] /\ ka[3] < kb[3]

\* list.sort(key=...): stable, equal keys keep their order
StableSort(blocks, keys) ==
    LET n == Len(blocks)
        Before(m, j) == KeyLess(keys[m], keys[j]) \/ (keys[m] = keys[j] /\ m < j)
        ord == [i \in 1..n |->
                  CHOOSE j \in 1..n : Cardinality({m \in 1..n : Before(m, j)}) = i - 1]
    IN  [i \in 1..n |-> blocks[ord[i]]]

optimize_reading_order(blocks, page_width) ==
    LET sorted == StableSort(blocks,
                             [i \in 1..Len(blocks) |-> get_sort_key(blocks[i], page_width)])
    IN  [i \in 1..Len(sorted) |-> [sorted[i] EXCEPT !.reading_order = i - 1]]

\* the blocks a page can hold: two left edges, two widths, two tops
LayoutShapes ==
    {[id |-> 0, type |-> "paragraph", x0 |-> x0, x1 |-> x0 + w, y0 |-> y0, y1 |-> y0 + 95,
      column_index |-> 0, reading_order |-> 0] :
        x0 \in {0, 250}, w \in {100, 300}, y0 \in {0, 100}}

\* the block lists of at most n blocks, with ids in list order
BlockLists(shapes, n) ==
    UNION {{[i \in 1..k |-> [bs[i] EXCEPT !.id = i]] : bs \in [1..k -> shapes]} : k \in 0..n}

OrderInit ==
    /\ FnOthersIdle
    /\ f_part = "order"
    /\ f_pc = "start"
    /\ \E bs \in BlockLists(LayoutShapes, NumLayoutBlocks) : \E w \in Widths :
          /\ f_in = [blocks |-> bs, page_width |-> w]
          /\ f_mem = bs
    /\ f_out = "none"

\* optimize_reading_order(blocks, page_width, page_height) sorts in place
OrderCall ==
    /\ f_part = "order"
    /\ f_pc = "start"
    /\ f_mem' = optimize_reading_order(f_mem, f_in.page_width)
    /\ f_pc' = "done"
    /\ UNCHANGED <<f_in, f_out>>
    /\ FnFrame

OrderNext == OrderCall

SpecOrder == OrderInit /\ [][OrderNext]_vars

ColumnOf(b) == get_column_index_from_bbox(b.x0, b.x1, f_in.page_width)

\* C13: after optimize_reading_order the n blocks of the page are the
\* blocks given, their reading_order values are 0..n-1 in list order, the
\* list is in ascending (column index, y0, x0); on a two-column page every
\* block whose centre is left of the middle precedes every block right of
\* it, and the blocks of one column go from top to bottom.
C13_PagePermutation ==
    (f_part = "order" /\ f_pc = "done") =>
        LET n == Len(f_mem)
            w == f_in.page_width
        IN  /\ n = Len(f_in.blocks)
            /\ {f_mem[i].id : i \in 1..n} = 1..n
            /\ \A i \in 1..n :
                  /\ f_mem[i].reading_order = i - 1
                  /\ f_mem[i] = [f_in.blocks[f_mem[i].id] EXCEPT !.reading_order = i - 1]
            /\ \A i, j \in 1..n :
                  i < j => ~KeyLess(<<ColumnOf(f_mem[j]), f_mem[j].y0, f_mem[j].x0>>,
                                    <<ColumnOf(f_mem[i]), f_mem[i].y0, f_mem[i].x0>>)
            /\ \A i, j \in 1..n :
                  /\ (400 <= w /\ w < 700 /\ LeftOfMiddle(f_mem[i].x0, f_mem[i].x1, w)
                        /\ ~LeftOfMiddle(f_mem[j].x0, f_mem[j].x1, w))
                        => f_mem[i].reading_order < f_mem[j].reading_order
                  /\ (ColumnOf(f_mem[i]) = ColumnOf(f_mem[j]) /\ f_mem[i].y0 < f_mem[j].y0)
                        => f_mem[i].reading_order < f_mem[j].reading_order

\* C13 witness: a two-column page on which a block of the left column that
\* came last and lies lower was put before a block of the right column.
C13_Witness ==
    /\ f_part = "order"
    /\ f_pc = "done"
    /\ f_in.page_width = 400
    /\ Len(f_mem) = 3
    /\ \E i, j \in 1..3 :
          /\ i < j
          /\ f_mem[i].id = 3
          /\ f_mem[i].y0 > f_mem[j].y0
          /\ LeftOfMiddle(f_mem[i].x0, f_mem[i].x1, 400)
          /\ ~LeftOfMiddle(f_mem[j].x0, f_mem[j].x1, 400)

\* ------------------------------------------------------------------------
\* Reading order of a document
\* (services/pdf_parse.py parse_pdf_to_structured_json, _guess_column_index,
\*  _merge_paragraph_blocks; services/layout_enhancement.py
\*  enhance_layout_processing)
\* Every page is page_width x page_height points; the steps of the parser
\* that do not touch the list or the reading_order of the blocks (fonts,
\* regions, header and footnote marks, section tree) are left out.
\* ------------------------------------------------------------------------

\* the largest number of pages of a document
NumPages == 2

\* the largest number of text blocks the PDF library reports for a page
NumPageBlocks == 2

parse_page_width == 500

parse_page_height == 1000

\* _guess_column_index: ratio = x0 / max(page_width, 1.0) against 0.33, 0.66
guess_column_index(x0, page_width) ==
    IF 100 * x0 < 33 * Max({page_width, 1}) THEN 0
    ELSE IF 100 * x0 < 66 * Max({page_width, 1}) THEN 1
    ELSE 2

\* gap_thresh = max(6.0, page_height * 0.012)
gap_thresh(page_height) == Max({6, (12 * page_height) \div 1000})

\* the condition under which b is merged into prev
MergesInto(prev, b, page_height) ==
    /\ prev.type = "paragraph"
    /\ b.type = "paragraph"
    /\ prev.column_index = b.column_index
    /\ b.y0 - prev.y1 >= -2
    /\ b.y0 - prev.y1 <= gap_thresh(page_height)
    /\ Min({b.x1, prev.x1}) - Max({b.x0, prev.x0}) > 10

MergeBBox(prev, b) ==
    [prev EXCEPT !.x0 = Min({prev.x0, b.x0}), !.y0 = Min({prev.y0, b.y0}),
                 !.x1 = Max({prev.x1, b.x1}), !.y1 = Max({prev.y1, b.y1})]

RECURSIVE MergeLoop(_, _, _)
MergeLoop(merged, rest, page_height) ==
    IF rest = <<>> THEN merged
    ELSE IF merged # <<>> /\ MergesInto(merged[Len(merged)], Head(rest), page_height)
    THEN MergeLoop([merged EXCEPT ![Len(merged)] = MergeBBox(merged[Len(merged)], Head(rest))],
                   Tail(rest), page_height)
    ELSE MergeLoop(Append(merged, Head(rest)), Tail(rest), page_height)

merge_paragraph_blocks(blocks, page_height) ==
    MergeLoop(<<>>,
              StableSort(blocks, [i \in 1..Len(blocks) |->
                                    <<blocks[i].column_index, blocks[i].y0, blocks[i].x0>>]),
              page_height)

\* the text blocks of a raw page: two left edges, two tops
ParseShapes ==
    {[id |-> 0, type |-> "paragraph", x0 |-> x0, x1 |-> x0 + 100, y0 |-> y0, y1 |-> y0 + 95,
      column_index |-> 0, reading_order |-> 0] : x0 \in {0, 250}, y0 \in {0, 100}}

RawPages == BlockLists(ParseShapes, NumPageBlocks)

\* the block dicts of one page: temporary reading_order from the running
\* counter, column_index guessed from x0; ids are unique in the document
PageBlockDicts(raw, page_index, reading_order) ==
    [i \in 1..Len(raw) |->
        [raw[i] EXCEPT !.id = page_index * (NumPageBlocks + 1) + i,
                       !.reading_order = reading_order + i - 1,
                       !.column_index = guess_column_index(raw[i].x0, parse_page_width)]]

\* the page loop for one page: blocks, merge, optimize_reading_order, then
\* the page's local order is shifted by the running counter
ParsedPage(raw, page_index, reading_order) ==
    LET dicts == PageBlockDicts(raw, page_index, reading_order)
        counter == reading_order + Len(raw)
        merged == merge_paragraph_blocks(dicts, parse_page_height)
        ordered == optimize_reading_order(merged, parse_page_width)
    IN  [blocks |-> [i \in 1..Len(ordered) |->
                        [ordered[i] EXCEPT !.reading_order = counter + @]],
         reading_order |-> counter + Len(ordered)]

\* doc = fitz.open(pdf_path): a document of 1..NumPages pages
ParseInit ==
    /\ FnOthersIdle
    /\ f_part = "parse"
    /\ f_pc = "pages"
    /\ \E n \in 1..NumPages : f_in \in [1..n -> RawPages]
    /\ f_mem = [pages |-> <<>>, reading_order |-> 0]
    /\ f_out = "none"

\* one turn of the loop over the pages
ParsePage ==
    /\ f_part = "parse"
    /\ f_pc = "pages"
    /\ Len(f_mem.pages) < Len(f_in)
    /\ LET page_index == Len(f_mem.pages)
           page == ParsedPage(f_in[page_index + 1], page_index, f_mem.reading_order)
       IN  f_mem' = [pages |-> Append(f_mem.pages, page.blocks),
                     reading_order |-> page.reading_order]
    /\ UNCHANGED <<f_pc, f_in, f_out>>
    /\ FnFrame

\* after the loop: enhance_layout_processing(pages, ...) runs
\* optimize_reading_order on the blocks of every page; the document is returned
ParseEnhance ==
    /\ f_part = "parse"
    /\ f_pc = "pages"
    /\ Len(f_mem.pages) = Len(f_in)
    /\ f_mem' = [f_mem EXCEPT !.pages =
                    [p \in 1..Len(f_mem.pages) |->
                        optimize_reading_order(f_mem.pages[p], parse_page_width)]]
    /\ f_pc' = "returned"
    /\ f_out' = "structured"
    /\ UNCHANGED f_in
    /\ FnFrame

ParseNext == ParsePage \/ ParseEnhance

SpecParse == ParseInit /\ [][ParseNext]_vars

\* C12: when parse_pdf_to_structured_json has returned, no two blocks of
\* the document have the same reading_order and every block of a page has
\* a larger reading_order than every block of the pages before it.
C12_GloballyUnique ==
    (f_part = "parse" /\ f_pc = "returned") =>
        \A p, q \in 1..Len(f_mem.pages) :
            \A i \in 1..Len(f_mem.pages[p]) : \A j \in 1..Len(f_mem.pages[q]) :
                /\ (p # q \/ i # j)
                      => f_mem.pages[p][i].reading_order # f_mem.pages[q][j].reading_order
                /\ p < q
                      => f_mem.pages[p][i].reading_order < f_mem.pages[q][j].reading_order

\* ------------------------------------------------------------------------
\* Section tree (services/document_structure.py analyze_document_structure)
\* The headings are numbered 1..n in the order of the sorted
\* heading_candidates; f_in is the sequence of their levels.  The tree is
\* kept as the parent of every node (0 for a node of the list sections);
\* the children of a node are in the order they were appended.
\* ------------------------------------------------------------------------

\* the largest number of headings of a document
MaxHeadings == 5

\* the levels _guess_heading_level gives a heading
HeadingLevels == 1..3

\* while stack and stack[-1].level >= level: pop, here without the equality
StackTopFinishedStrict(top_level, level) == top_level > level

StackTopFinished(top_level, level) == top_level >= level

RECURSIVE PopFinished(_, _, _)
PopFinished(stack, levels, level) ==
    IF stack # <<>> /\ StackTopFinished(levels[stack[Len(stack)]], level)
    THEN PopFinished(SubSeq(stack, 1, Len(stack) - 1), levels, level)
    ELSE stack

StructInit ==
    /\ FnOthersIdle
    /\ f_part = "structure"
    /\ f_pc = "headings"
    /\ \E n \in 0..MaxHeadings : f_in \in [1..n -> HeadingLevels]
    /\ f_mem = [stack |-> <<>>, parent |-> <<>>]
    /\ f_out = "none"

\* no heading: return {"sections": []}
StructNoHeading ==
    /\ f_part = "structure"
    /\ f_pc = "headings"
    /\ f_in = <<>>
    /\ f_pc' = "done"
    /\ f_out' = "sections"
    /\ UNCHANGED <<f_in, f_mem>>
    /\ FnFrame

\* one turn of the loop over heading_candidates: pop, attach, push
StructHeading ==
    /\ f_part = "structure"
    /\ f_pc = "headings"
    /\ Len(f_mem.parent) < Len(f_in)
    /\ LET idx == Len(f_mem.parent) + 1
           stack == PopFinished(f_mem.stack, f_in, f_in[idx])
           parent == IF stack # <<>> THEN stack[Len(stack)] ELSE 0
       IN  /\ f_mem' = [stack |-> Append(stack, idx),
                        parent |-> Append(f_mem.parent, parent)]
           /\ f_pc' = IF idx = Len(f_in) THEN "done" ELSE "headings"
           /\ f_out' = IF idx = Len(f_in) THEN "sections" ELSE f_out
    /\ UNCHANGED f_in
    /\ FnFrame

StructNext == StructNoHeading \/ StructHeading

SpecStruct == StructInit /\ [][StructNext]_vars

\* node.children (node 0: the list sections)
Children(node) == {i \in 1..Len(f_mem.parent) : f_mem.parent[i] = node}

StructDone(levels) == f_part = "structure" /\ f_pc = "done" /\ f_in = levels

\* C14 as stated: for the levels [1,2,2,1,3] the tree has 2 top-level nodes,
\* the first with 2 children, the second with 1 child that has 1 child.
C14_TreeAsStated ==
    StructDone(<<1, 2, 2, 1, 3>>) =>
        /\ Children(0) = {1, 4}
        /\ Children(1) = {2, 3}
        /\ Cardinality(Children(4)) = 1
        /\ \A c \in Children(4) : Cardinality(Children(c)) = 1

\* C14 amended: every heading is the child of the nearest earlier heading
\* of a smaller level, or top-level when there is none; for the levels
\* [1,2,2,1,3] the tree has 2 top-level nodes, the first with the 2
\* level-2 headings as children, the second with the level-3 heading as
\* its only child, and no node has a grandchild.
C14_TreeNearestSmaller ==
    /\ (f_part = "structure" /\ f_pc = "done") =>
          \A i \in 1..Len(f_in) :
              LET smaller == {j \in 1..(i - 1) : f_in[j] < f_in[i]}
              IN  f_mem.parent[i] = IF smaller = {} THEN 0 ELSE Max(smaller)
    /\ StructDone(<<1, 2, 2, 1, 3>>) =>
          /\ Children(0) = {1, 4}
          /\ Children(1) = {2, 3}
          /\ Children(4) = {5}
          /\ Children(2) = {} /\ Children(3) = {} /\ Children(5) = {}

\* C14 witness: the tree of the levels [1,2,2,1,3] has been built.
C14_Witness ==
    /\ StructDone(<<1, 2, 2, 1, 3>>)
    /\ f_mem.parent = <<0, 1, 1, 0, 4>>

\* ------------------------------------------------------------------------
\* Footnote detection (services/layout_enhancement.py
\* enhance_footnote_detection) for one block of a page of height
\* footnote_page_height.  The text of the block is a sequence of pieces:
\* "1)" (a footnote mark), " ", "word" (a word of four letters) and "see".
\* ------------------------------------------------------------------------

\* the largest number of pieces of a block's text
MaxTextPieces == 4

footnote_page_height == 1000

TextPieces == {"1)", " ", "word", "see"}

PieceLen(piece) ==
    CASE piece = "1)" -> 2
      [] piece = " " -> 1
      [] piece = "word" -> 4
      [] OTHER -> 3

RECURSIVE StripLeft(_)
StripLeft(text) ==
    IF text # <<>> /\ Head(text) = " " THEN StripLeft(Tail(text)) ELSE text

RECURSIVE StripRight(_)
StripRight(text) ==
    IF text # <<>> /\ text[Len(text)] = " "
    THEN StripRight(SubSeq(text, 1, Len(text) - 1)) ELSE text

\* str.strip()
Strip(text) == StripRight(StripLeft(text))

RECURSIVE TextLen(_)
TextLen(text) == IF text = <<>> THEN 0 ELSE PieceLen(Head(text)) + TextLen(Tail(text))

\* any(re.match(pattern, text_raw) for pattern in footnote_patterns): of the
\* pieces only "1)" begins a match (digits, by the first and the last pattern)
starts_with_marker(text_raw) == text_raw # <<>> /\ Head(text_raw) = "1)"

\* the first, the last character of the piece is a letter, digit or underscore
WordCharFirst(piece) == piece \in {"1)", "word", "see"}

WordCharLast(piece) == piece \in {"word", "see"}

\* re.search(r"\b(see|ibid|...)\b", text_raw, re.IGNORECASE)
has_reference_markers(text_raw) ==
    \E i \in 1..Len(text_raw) :
        /\ text_raw[i] = "see"
        /\ i > 1 => ~WordCharLast(text_raw[i - 1])
        /\ i < Len(text_raw) => ~WordCharFirst(text_raw[i + 1])

footnote_score(block, page_height) ==
    LET text_raw == Strip(block.text)
        text_len == TextLen(text_raw)
    IN  (IF 100 * block.y0 >= 85 * page_height THEN 3 ELSE 0)
      + (IF starts_with_marker(text_raw) THEN 4 ELSE 0)
      + (IF 1000 * (block.y1 - block.y0) < 25 * page_height THEN 2 ELSE 0)
      + (IF 5 < text_len /\ text_len < 800 THEN 2 ELSE 0)
      + (IF block.font_size > 0 /\ block.font_size < 10 THEN 1 ELSE 0)
      + (IF has_reference_markers(text_raw) THEN 2 ELSE 0)

\* the block after the loop body; footnote_confidence in fourteenths
enhance_footnote_detection(block, page_height) ==
    IF block.is_header_footer \/ block.is_footnote THEN block
    ELSE LET score == footnote_score(block, page_height)
         IN  IF score >= 6
             THEN [block EXCEPT !.is_footnote = TRUE,
                                !.footnote_confidence = Min({score, 14})]
             ELSE block

Texts == UNION {[1..n -> TextPieces] : n \in 0..MaxTextPieces}

FootnoteInit ==
    /\ FnOthersIdle
    /\ f_part = "footnote"
    /\ f_pc = "start"
    /\ \E text \in Texts, y0 \in {500, 850, 950}, h \in {10, 30},
          font_size \in {0, 9, 12}, hf \in BOOLEAN :
          f_in = [text |-> text, y0 |-> y0, y1 |-> y0 + h, font_size |-> font_size,
                  is_header_footer |-> hf, is_footnote |-> FALSE,
                  footnote_confidence |-> 0]
    /\ f_mem = f_in
    /\ f_out = "none"

FootnoteCall ==
    /\ f_part = "footnote"
    /\ f_pc = "start"
    /\ f_mem' = enhance_footnote_detection(f_mem, footnote_page_height)
    /\ f_pc' = "done"
    /\ UNCHANGED <<f_in, f_out>>
    /\ FnFrame

FootnoteNext == FootnoteCall

SpecFootnote == FootnoteInit /\ [][FootnoteNext]_vars

\* C15: a block whose text starts with "1) " and whose height is 1% of the
\* page height is flagged as footnote (score >= 6) at y0 = 0.95 x page
\* height and is not flagged at y0 = 0.5 x page height.
C15_BottomOnly ==
    (/\ f_part = "footnote"
     /\ f_pc = "done"
     /\ ~f_in.is_header_footer
     /\ Len(f_in.text) >= 2
     /\ f_in.text[1] = "1)"
     /\ f_in.text[2] = " "
     /\ f_in.y1 - f_in.y0 = 10)
        => /\ f_in.y0 = 950 => (f_mem.is_footnote /\ f_mem.footnote_confidence >= 6)
           /\ f_in.y0 = 500 => ~f_mem.is_footnote

\* ------------------------------------------------------------------------
\* Regions applied to blocks (services/layout_detect.py _bbox_intersect,
\* apply_regions_to_blocks) for one block; scores are in tenths.
\* ------------------------------------------------------------------------

\* the largest number of detected regions of a page
MaxRegions == 2

RegionTypes == {"figure", "table", "formula", "unknown"}

BlockTypes == {"heading", "paragraph", "caption", "formula", "figure", "table", "title"}

bbox_intersect(a, b) ==
    /\ Min({a.x1, b.x1}) - Max({a.x0, b.x0}) > 0
    /\ Min({a.y1, b.y1}) - Max({a.y0, b.y0}) > 0

\* priority.get(type, 0)
region_priority(type) ==
    CASE type \in {"heading", "paragraph"} -> 1
      [] type = "caption" -> 2
      [] type \in {"formula", "figure", "table"} -> 3
      [] OTHER -> 0

\* the loop over regions: the intersecting region of the highest score, the
\* first of them on equal scores; 0 when no region intersects
RECURSIVE BestRegion(_, _, _, _)
BestRegion(bbox, regions, i, best) ==
    IF i > Len(regions) THEN best
    ELSE IF bbox_intersect(bbox, regions[i])
            /\ (best = 0 \/ regions[i].score > regions[best].score)
    THEN BestRegion(bbox, regions, i + 1, i)
    ELSE BestRegion(bbox, regions, i + 1, best)

apply_regions_to_blocks(blk, regions) ==
    LET best == BestRegion(blk, regions, 1, 0)
    IN  IF best = 0 THEN blk
        ELSE IF /\ regions[best].type \in {"figure", "table", "formula"}
                /\ region_priority(regions[best].type) >= region_priority(blk.type)
        THEN [blk EXCEPT !.type = regions[best].type]
        ELSE blk

\* a region over the lower right part of the block, or one that only
\* touches its right edge
Regions ==
    {[type |-> t, x0 |-> x0, y0 |-> 5, x1 |-> x0 + 10, y1 |-> 15, score |-> sc] :
        t \in RegionTypes, x0 \in {5, 10}, sc \in {4, 7}}

RegionsInit ==
    /\ FnOthersIdle
    /\ f_part = "regions"
    /\ f_pc = "start"
    /\ \E t \in BlockTypes : \E n \in 0..MaxRegions : \E rs \in [1..n -> Regions] :
          f_in = [blk |-> [type |-> t, x0 |-> 0, y0 |-> 0, x1 |-> 10, y1 |-> 10],
                  regions |-> rs]
    /\ f_mem = f_in.blk
    /\ f_out = "none"

RegionsCall ==
    /\ f_part = "regions"
    /\ f_pc = "start"
    /\ f_mem' = apply_regions_to_blocks(f_mem, f_in.regions)
    /\ f_pc' = "done"
    /\ UNCHANGED <<f_in, f_out>>
    /\ FnFrame

RegionsNext == RegionsCall

SpecRegions == RegionsInit /\ [][RegionsNext]_vars

\* the order of the claim: formula > figure/table > caption > paragraph/heading
StatedPriority(type) ==
    CASE type = "formula" -> 4
      [] type \in {"figure", "table"} -> 3
      [] type = "caption" -> 2
      [] type \in {"heading", "paragraph"} -> 1
      [] OTHER -> 0

Intersecting == {i \in 1..Len(f_in.regions) : bbox_intersect(f_in.blk, f_in.regions[i])}

\* C16: after apply_regions_to_blocks the type of the block has the highest
\* priority among its previous type and the types of the regions it
\* intersects, under formula > figure/table > caption > paragraph/heading;
\* a block that intersects a formula region and a figure or table region
\* ends as formula whatever the scores.
C16_HighestPriorityType ==
    (f_part = "regions" /\ f_pc = "done") =>
        /\ StatedPriority(f_mem.type) >= StatedPriority(f_in.blk.type)
        /\ \A i \in Intersecting :
              StatedPriority(f_mem.type) >= StatedPriority(f_in.regions[i].type)
        /\ (\E i, j \in Intersecting :
                /\ f_in.regions[i].type = "formula"
                /\ f_in.regions[j].type \in {"figure", "table"})
              => f_mem.type = "formula"

\* ------------------------------------------------------------------------
\* PDF export (services/pdf_export.py build_translated_pdf, _insert_block)
\* A page of a PDF document is [src, fills, texts]: the source page it is
\* a copy of, the blocks whose area was filled white on it and the blocks
\* whose text was inserted on it; a block is named <<p, b>>, block b of
\* the p-th page of structured["pages"].  Page numbers start at 0 as in
\* the PDF library, positions of sequences at 1.
\* ------------------------------------------------------------------------

\* the largest number of pages of the source PDF
NumExportPages == 2

\* the largest number of entries of structured["pages"]
NumStructPages == 2

\* translated text; no translation; header or footer; figure
BlockKinds == {"translated", "untranslated", "header", "figure"}

SourcePages(page_count) == [i \in 1..page_count |-> [src |-> i, fills |-> {}, texts |-> {}]]

\* Document.insert_pdf(docsrc, start_at=...): the pages go before page
\* start_at of the target
insert_pdf(target, pages, start_at) ==
    SubSeq(target, 1, start_at) \o pages \o SubSeq(target, start_at + 1, Len(target))

\* the page of base the blocks of page page_index are drawn on, here the first copy
target_page_number_mono(bilingual, page_index, page_count) == page_index

target_page_number(bilingual, page_index, page_count) ==
    IF bilingual THEN page_index + page_count ELSE page_index

\* _insert_block(page, block, use_translation=True, cover_original=True)
insert_block(page, kind, name) ==
    CASE kind \in {"header", "figure"} -> page
      [] kind = "translated" ->
            [page EXCEPT !.fills = @ \cup {name}, !.texts = @ \cup {name}]
      [] OTHER -> [page EXCEPT !.texts = @ \cup {name}]

RECURSIVE InsertBlocks(_, _, _, _)
InsertBlocks(page, blocks, p, b) ==
    IF b > Len(blocks) THEN page
    ELSE InsertBlocks(insert_block(page, blocks[b], <<p, b>>), blocks, p, b + 1)

StructPages(page_count) ==
    {[index |-> i, blocks |-> bs] :
        i \in 0..page_count, bs \in {<<>>} \cup {<<k>> : k \in BlockKinds}}

ExportInit ==
    /\ FnOthersIdle
    /\ f_part = "export"
    /\ f_pc = "start"
    /\ \E page_count \in 1..NumExportPages : \E bilingual \in BOOLEAN :
       \E n \in 0..NumStructPages : \E ps \in [1..n -> StructPages(page_count)] :
          f_in = [page_count |-> page_count, bilingual |-> bilingual, pages |-> ps]
    /\ f_mem = [base |-> <<>>, next |-> 1]
    /\ f_out = <<>>

\* base = fitz.open(); base.insert_pdf(src, start_at=0, ...), twice when bilingual
ExportCopy ==
    /\ f_part = "export"
    /\ f_pc = "start"
    /\ LET once == insert_pdf(<<>>, SourcePages(f_in.page_count), 0)
       IN  f_mem' = [f_mem EXCEPT !.base =
                        IF f_in.bilingual
                        THEN insert_pdf(once, SourcePages(f_in.page_count), 0)
                        ELSE once]
    /\ f_pc' = "overlay"
    /\ UNCHANGED <<f_in, f_out>>
    /\ FnFrame

\* one turn of the loop over structured["pages"]
ExportOverlay ==
    /\ f_part = "export"
    /\ f_pc = "overlay"
    /\ f_mem.next <= Len(f_in.pages)
    /\ LET p == f_in.pages[f_mem.next]
           target == target_page_number(f_in.bilingual, p.index, f_in.page_count) + 1
       IN  f_mem' = [base |-> IF p.index >= f_in.page_count THEN f_mem.base
                              ELSE [f_mem.base EXCEPT ![target] =
                                       InsertBlocks(@, p.blocks, f_mem.next, 1)],
                     next |-> f_mem.next + 1]
    /\ UNCHANGED <<f_pc, f_in, f_out>>
    /\ FnFrame

\* the output: base itself, or when bilingual the pages of base in pairs
ExportOutput ==
    /\ f_part = "export"
    /\ f_pc = "overlay"
    /\ f_mem.next > Len(f_in.pages)
    /\ f_out' = IF ~f_in.bilingual THEN f_mem.base
                ELSE [k \in 1..(2 * f_in.page_count) |->
                        IF k % 2 = 1 THEN f_mem.base[(k + 1) \div 2]
                        ELSE f_mem.base[(k \div 2) + f_in.page_count]]
    /\ f_pc' = "returned"
    /\ UNCHANGED <<f_in, f_mem>>
    /\ FnFrame

ExportNext == ExportCopy \/ ExportOverlay \/ ExportOutput

SpecExport == ExportInit /\ [][ExportNext]_vars

\* the blocks of source page i (from 1) that _insert_block draws, with or
\* without the white fill
DrawnOn(i, kinds) ==
    UNION {{<<p, b>> : b \in {c \in 1..Len(f_in.pages[p].blocks) :
                                  f_in.pages[p].blocks[c] \in kinds}} :
              p \in {q \in 1..Len(f_in.pages) : f_in.pages[q].index = i - 1}}

\* C17: in dual mode the document returned for a source of n pages has 2n
\* pages; page 2i-1 is source page i without fill or inserted text, page 2i
\* is a copy of source page i with the overlays of all blocks of page i.
C17_DualInterleaved ==
    (f_part = "export" /\ f_pc = "returned" /\ f_in.bilingual) =>
        /\ Len(f_out) = 2 * f_in.page_count
        /\ \A i \in 1..f_in.page_count :
              /\ f_out[2 * i - 1] = [src |-> i, fills |-> {}, texts |-> {}]
              /\ f_out[2 * i].src = i
              /\ f_out[2 * i].fills = DrawnOn(i, {"translated"})
              /\ f_out[2 * i].texts = DrawnOn(i, {"translated", "untranslated"})

\* C17 witness: a dual export of two pages whose second page has a
\* translated block, listed before a block of the first page.
C17_Witness ==
    /\ f_part = "export"
    /\ f_pc = "returned"
    /\ f_in.bilingual
    /\ f_in.page_count = 2
    /\ Len(f_in.pages) = 2
    /\ f_in.pages[1] = [index |-> 1, blocks |-> <<"translated">>]
    /\ f_in.pages[2] = [index |-> 0, blocks |-> <<"untranslated">>]
    /\ f_out[4].fills = {<<1, 1>>}

\* ------------------------------------------------------------------------
\* Term unification (services/term_consistency.py _extract_english_terms,
\* _normalize_term, TermConsistencyChecker.add_term_mapping,
\* determine_final_glossary, get_glossary, _replace_term_in_translation,
\* unify_terms_in_translations)
\* A text is the sequence of its pieces, written one after the other:
\* "Transformer Encoder", "transformer encoder" (the term in lower case),
\* "zh" (Chinese characters, which are word characters) and " ".
\* Every source block is "Transformer Encoder model", so the only term key
\* is "transformer encoder" and its only candidate is "Transformer Encoder".
\* ------------------------------------------------------------------------

\* the number of blocks of the document
NumTermBlocks == 3

\* the largest number of pieces of a translation
MaxTransPieces == 2

min_frequency == 2

TermPieces == {"Transformer Encoder", "transformer encoder"}

TransPieces == TermPieces \cup {"zh", " "}

TermSource == <<"Transformer Encoder", " ", "model">>

\* \b at the left, right edge of piece i: the neighbour is no word character
BoundaryLeft(text, i) == i = 1 \/ text[i - 1] = " "

BoundaryRight(text, i) == i = Len(text) \/ text[i + 1] = " "

\* _extract_english_terms: the phrases of capitalised words
extract_english_terms(text) ==
    SelectSeq([i \in 1..Len(text) |->
                  IF text[i] = "Transformer Encoder" /\ BoundaryLeft(text, i)
                     /\ BoundaryRight(text, i)
                  THEN text[i] ELSE ""],
              LAMBDA t : t # "")

\* _normalize_term: strip, single spaces, lower case
normalize_term(term) == IF term \in TermPieces THEN "transformer encoder" ELSE term

\* key in translated_text.lower()
KeyInLowered(key, text) == \E i \in 1..Len(text) : normalize_term(text[i]) = key

\* one term of add_term_mapping's loop
AddOneTerm(chk, term, translated_text) ==
    [chk EXCEPT
        !.term_translation_contexts =
            IF translated_text \in Range(@) THEN @ ELSE Append(@, translated_text),
        !.term_mappings =
            IF KeyInLowered(normalize_term(term), translated_text) THEN @ + 1 ELSE @]

RECURSIVE AddTerms(_, _, _)
AddTerms(chk, terms, translated_text) ==
    IF terms = <<>> THEN chk
    ELSE AddTerms(AddOneTerm(chk, Head(terms), translated_text), Tail(terms), translated_text)

add_term_mapping(chk, source_text, translated_text) ==
    IF source_text = <<>> \/ translated_text = <<>> THEN chk
    ELSE AddTerms([chk EXCEPT !.source_terms = @ + Len(extract_english_terms(source_text))],
                  extract_english_terms(source_text), translated_text)

\* determine_final_glossary: the unified form of the one key, <<>> when
\* the key is not in the glossary; embed_choice is the context chosen by
\* _best_translation_via_embedding, 0 for None
determine_final_glossary(chk, embed_choice) ==
    IF chk.source_terms < min_frequency THEN <<>>
    ELSE IF embed_choice # 0 /\ Strip(chk.term_translation_contexts[embed_choice]) # <<>>
    THEN Strip(chk.term_translation_contexts[embed_choice])
    ELSE IF chk.term_mappings > 0 THEN <<"Transformer Encoder">>
    ELSE <<"transformer encoder">>

\* re.sub(r"\b" + re.escape(term) + r"\b", unified, text, flags=re.IGNORECASE)
RECURSIVE replace_term_in_translation(_, _, _)
replace_term_in_translation(text, i, unified) ==
    IF i > Len(text) THEN <<>>
    ELSE (IF text[i] \in TermPieces /\ BoundaryLeft(text, i) /\ BoundaryRight(text, i)
          THEN unified ELSE <<text[i]>>)
         \o replace_term_in_translation(text, i + 1, unified)

unify_terms_in_translations(blocks, glossary) ==
    IF glossary = <<>> THEN blocks
    ELSE [b \in 1..Len(blocks) |->
            LET translation == replace_term_in_translation(blocks[b].translation, 1, glossary)
            IN  IF blocks[b].translation # <<>> /\ translation # blocks[b].translation
                THEN [translation |-> translation, term_unified |-> TRUE]
                ELSE blocks[b]]

Translations == UNION {[1..n -> TransPieces] : n \in 1..MaxTransPieces}

NewChecker == [source_terms |-> 0, term_mappings |-> 0, term_translation_contexts |-> <<>>]

TermInit ==
    /\ FnOthersIdle
    /\ f_part = "terms"
    /\ f_pc = "mapping"
    /\ f_in \in [1..NumTermBlocks -> Translations]
    /\ f_mem = [checker |-> NewChecker, added |-> 0,
                blocks |-> [b \in 1..NumTermBlocks |->
                               [translation |-> f_in[b], term_unified |-> FALSE]]]
    /\ f_out = <<>>

\* checker.add_term_mapping(block text, translation) for the next block
TermAddMapping ==
    /\ f_part = "terms"
    /\ f_pc = "mapping"
    /\ f_mem.added < NumTermBlocks
    /\ f_mem' = [f_mem EXCEPT
                    !.checker = add_term_mapping(@, TermSource, f_in[f_mem.added + 1]),
                    !.added = @ + 1]
    /\ UNCHANGED <<f_pc, f_in, f_out>>
    /\ FnFrame

\* unify_terms_in_translations(blocks, checker), with the glossary of
\* checker.get_glossary()
TermUnify ==
    /\ f_part = "terms"
    /\ f_pc = "mapping"
    /\ f_mem.added = NumTermBlocks
    /\ \E embed_choice \in 0..Len(f_mem.checker.term_translation_contexts) :
          LET glossary == determine_final_glossary(f_mem.checker, embed_choice)
          IN  /\ f_out' = glossary
              /\ f_mem' = [f_mem EXCEPT !.blocks = unify_terms_in_translations(@, glossary)]
    /\ f_pc' = "unified"
    /\ UNCHANGED f_in
    /\ FnFrame

TermNext == TermAddMapping \/ TermUnify

SpecTerms == TermInit /\ [][TermNext]_vars

ContainsMajority(text) == \E i \in 1..Len(text) : text[i] = "Transformer Encoder"

\* the text has the term in another form only
ContainsOtherForm(text) ==
    /\ ~ContainsMajority(text)
    /\ \E i \in 1..Len(text) : text[i] = "transformer encoder"

\* C18: when two of the three translations contain "Transformer Encoder"
\* and one contains another form of it, after the three add_term_mapping
\* calls and unify_terms_in_translations all three translations contain
\* "Transformer Encoder" and every changed block has term_unified = True.
C18_MajorityEverywhere ==
    (/\ f_part = "terms"
     /\ f_pc = "unified"
     /\ Cardinality({b \in 1..NumTermBlocks : ContainsMajority(f_in[b])}) = 2
     /\ Cardinality({b \in 1..NumTermBlocks : ContainsOtherForm(f_in[b])}) = 1)
        => \A b \in 1..NumTermBlocks :
              /\ ContainsMajority(f_mem.blocks[b].translation)
              /\ f_mem.blocks[b].translation # f_in[b] => f_mem.blocks[b].term_unified

\* ------------------------------------------------------------------------
\* TranslateOrchestrator.translate_blocks_batch (services/orchestrator.py):
\* the tasks of the valid blocks are translated in batches, their results
\* are merged back into the blocks by block id, and the terms of the
\* translations are unified.
\* ------------------------------------------------------------------------

NumBatchBlocks == 2

BatchBlockTypes == {"title", "paragraph"}

\* block texts: one with a term, one without, one that strips to nothing
BatchBlockTexts == {TermSource, <<"model">>, <<" ">>}

\* what translate_func may return for a text
ResultTexts == {<<"Transformer Encoder">>, <<"transformer encoder">>, <<"zh">>}

\* f"[翻译失败: {result.error}]"
FailureMarker == <<"[failed]">>

\* the ids of the blocks, up to renaming: a block has the id of an earlier
\* block or the next unused id
BlockIdLists ==
    {ids \in [1..NumBatchBlocks -> 1..NumBatchBlocks] :
        \A i \in 1..NumBatchBlocks :
            ids[i] <= Cardinality({ids[j] : j \in 1..(i - 1)}) + 1}

InputBlocks ==
    {[i \in 1..NumBatchBlocks |->
         [id |-> ids[i], type |-> types[i], text |-> texts[i],
          translation |-> <<>>, translation_error |-> FALSE,
          translation_failed |-> FALSE, term_unified |-> FALSE]] :
     ids \in BlockIdLists,
     types \in [1..NumBatchBlocks -> BatchBlockTypes],
     texts \in [1..NumBatchBlocks -> BatchBlockTexts]}

\* valid_blocks: the positions of the blocks with a text (a block marked
\* is_header_footer or is_footnote is left out in the same way)
valid_blocks(blocks) ==
    SelectSeq([i \in 1..Len(blocks) |-> i], LAMBDA i : Strip(blocks[i].text) # <<>>)

\* the block types of the tasks, in task order
TaskTypes(blocks, valid) == [t \in 1..Len(valid) |-> blocks[valid[t]].type]

NoOutcome == [done |-> FALSE, error |-> FALSE, translation |-> <<>>]

BlocksInit ==
    /\ FnOthersIdle
    /\ f_part = "blocks"
    /\ f_pc = "called"
    /\ f_in \in [blocks : InputBlocks, use_smart_batching : BOOLEAN,
                 use_term_consistency : BOOLEAN]
    /\ f_mem = <<>>
    /\ f_out = <<>>

\* translate_blocks_batch up to the call of the batch translator
BlocksBegin ==
    /\ f_part = "blocks"
    /\ f_pc = "called"
    /\ LET valid == valid_blocks(f_in.blocks)
       IN  f_mem' = [valid |-> valid,
                     rest |-> IF f_in.use_smart_batching
                              THEN prioritize_tasks(TaskTypes(f_in.blocks, valid))
                              ELSE [t \in 1..Len(valid) |-> t],
                     batch |-> <<>>,
                     produced |-> [t \in 1..Len(valid) |-> NoOutcome],
                     results |-> <<>>,
                     glossary |-> <<>>]
    /\ f_pc' = "translating"
    /\ UNCHANGED <<f_in, f_out>>
    /\ FnFrame

\* the batch translator forms its next batch and starts its tasks
BlocksSubmit ==
    /\ f_part = "blocks"
    /\ f_pc = "translating"
    /\ f_mem.batch = <<>>
    /\ f_mem.rest # <<>>
    /\ \E cbs \in 1..NumBatchBlocks :
          LET types == TaskTypes(f_in.blocks, f_mem.valid)
              tb == IF f_in.use_smart_batching
                    THEN TakeBatch(<<Head(f_mem.rest)>>, Tail(f_mem.rest),
                                   get_block_priority(types[Head(f_mem.rest)]), cbs, types)
                    ELSE [batch |-> f_mem.rest, rest |-> <<>>]
          IN  f_mem' = [f_mem EXCEPT !.batch = tb.batch, !.rest = tb.rest]
    /\ UNCHANGED <<f_pc, f_in, f_out>>
    /\ FnFrame

\* translate_one of a task of the batch ends, with a translation
BlocksTaskReturns ==
    /\ f_part = "blocks"
    /\ f_pc = "translating"
    /\ \E k \in 1..Len(f_mem.batch), translation \in ResultTexts :
          /\ ~f_mem.produced[f_mem.batch[k]].done
          /\ f_mem' = [f_mem EXCEPT !.produced[f_mem.batch[k]] =
                          [done |-> TRUE, error |-> FALSE, translation |-> translation]]
    /\ UNCHANGED <<f_pc, f_in, f_out>>
    /\ FnFrame

\* translate_one of a task of the batch ends, its retries used up
BlocksTaskFails ==
    /\ f_part = "blocks"
    /\ f_pc = "translating"
    /\ \E k \in 1..Len(f_mem.batch) :
          /\ ~f_mem.produced[f_mem.batch[k]].done
          /\ f_mem' = [f_mem EXCEPT !.produced[f_mem.batch[k]] =
                          [done |-> TRUE, error |-> TRUE, translation |-> <<>>]]
    /\ UNCHANGED <<f_pc, f_in, f_out>>
    /\ FnFrame

\* asyncio.gather returns the results of the batch, in the batch's order
BlocksGather ==
    /\ f_part = "blocks"
    /\ f_pc = "translating"
    /\ f_mem.batch # <<>>
    /\ \A k \in 1..Len(f_mem.batch) : f_mem.produced[f_mem.batch[k]].done
    /\ f_mem' = [f_mem EXCEPT !.results = @ \o f_mem.batch, !.batch = <<>>]
    /\ UNCHANGED <<f_pc, f_in, f_out>>
    /\ FnFrame

\* the k-th result is given to the k-th valid block
block_at_result_position(blocks, valid, k, block_id) == valid[k]

\* block_map.get(result.block_id), block_map = {b.get("id"): b for b in
\* valid_blocks}: the last valid block with that id
block_map_get(blocks, valid, k, block_id) ==
    Max({valid[v] : v \in {w \in 1..Len(valid) : blocks[valid[w]].id = block_id}})

\* the body of "for result in results", for the k-th result
MergeOne(st, valid, k, t, outcome, use_term_consistency) ==
    LET b == block_map_get(st.blocks, valid, k, st.blocks[valid[t]].id)
    IN  IF ~outcome.error
        THEN [blocks |-> [st.blocks EXCEPT ![b].translation = outcome.translation],
              checker |-> IF use_term_consistency
                          THEN add_term_mapping(st.checker, st.blocks[b].text,
                                                outcome.translation)
                          ELSE st.checker]
        ELSE [blocks |-> [st.blocks EXCEPT ![b].translation = FailureMarker,
                                           ![b].translation_error = TRUE],
              checker |-> st.checker]

RECURSIVE MergeResults(_, _, _, _, _, _)
MergeResults(st, valid, results, k, produced, use_term_consistency) ==
    IF k > Len(results) THEN st
    ELSE MergeResults(MergeOne(st, valid, k, results[k], produced[results[k]],
                               use_term_consistency),
                      valid, results, k + 1, produced, use_term_consistency)

\* unify_terms_in_translations(valid_blocks, term_checker)
UnifyValid(blocks, valid, glossary) ==
    LET unified == unify_terms_in_translations(
                       [v \in 1..Len(valid) |->
                           [translation |-> blocks[valid[v]].translation,
                            term_unified |-> FALSE]], glossary)
    IN  [i \in 1..Len(blocks) |->
            IF \E v \in 1..Len(valid) : valid[v] = i /\ unified[v].term_unified
            THEN LET v == CHOOSE w \in 1..Len(valid) : valid[w] = i
                 IN  [blocks[i] EXCEPT !.translation = unified[v].translation,
                                       !.term_unified = TRUE]
            ELSE blocks[i]]

\* the results are merged into the blocks, the terms unified, and the
\* blocks returned
BlocksMerge ==
    /\ f_part = "blocks"
    /\ f_pc = "translating"
    /\ f_mem.batch = <<>>
    /\ f_mem.rest = <<>>
    /\ LET st == MergeResults([blocks |-> f_in.blocks, checker |-> NewChecker],
                              f_mem.valid, f_mem.results, 1, f_mem.produced,
                              f_in.use_term_consistency)
       IN  IF f_in.use_term_consistency
           THEN \E embed_choice \in 0..Len(st.checker.term_translation_contexts) :
                   LET glossary == determine_final_glossary(st.checker, embed_choice)
                   IN  /\ f_out' = UnifyValid(st.blocks, f_mem.valid, glossary)
                       /\ f_mem' = [f_mem EXCEPT !.glossary = glossary]
           ELSE /\ f_out' = st.blocks
                /\ UNCHANGED f_mem
    /\ f_pc' = "returned"
    /\ UNCHANGED f_in
    /\ FnFrame

BlocksNext ==
    \/ BlocksBegin
    \/ BlocksSubmit
    \/ BlocksTaskReturns
    \/ BlocksTaskFails
    \/ BlocksGather
    \/ BlocksMerge

SpecBlocks == BlocksInit /\ [][BlocksNext]_vars

DistinctIds(blocks) ==
    \A i, j \in 1..Len(blocks) : blocks[i].id = blocks[j].id => i = j

\* the returned list holds the same blocks in the same order
SameBlocksInOrder ==
    /\ Len(f_out) = Len(f_in.blocks)
    /\ \A i \in 1..Len(f_out) :
          /\ f_out[i].id = f_in.blocks[i].id
          /\ f_out[i].type = f_in.blocks[i].type
          /\ f_out[i].text = f_in.blocks[i].text

\* the task of the valid block at position i
TaskOf(i) == CHOOSE t \in 1..Len(f_mem.valid) : f_mem.valid[t] = i

Translated(i) ==
    /\ \E t \in 1..Len(f_mem.valid) : f_mem.valid[t] = i
    /\ ~f_mem.produced[TaskOf(i)].error

\* C19 as stated: for blocks with pairwise distinct ids, after
\* translate_blocks_batch returns the list holds the same blocks in the
\* same order and each translated block's translation is the result that
\* was produced for its own text.
C19_OwnResult ==
    (f_part = "blocks" /\ f_pc = "returned" /\ DistinctIds(f_in.blocks))
        => /\ SameBlocksInOrder
           /\ \A i \in 1..Len(f_out) :
                 Translated(i) => f_out[i].translation = f_mem.produced[TaskOf(i)].translation

\* C19, amended: for blocks with pairwise distinct ids, after
\* translate_blocks_batch returns the list holds the same blocks in the
\* same order and each translated block's translation is the result that
\* was produced for its own text, or, when term consistency is on and the
\* block is marked term_unified, that result with the term replaced by the
\* glossary's unified form.
C19_OwnResultUnified ==
    (f_part = "blocks" /\ f_pc = "returned" /\ DistinctIds(f_in.blocks))
        => /\ SameBlocksInOrder
           /\ \A i \in 1..Len(f_out) :
                 Translated(i) =>
                    LET own == f_mem.produced[TaskOf(i)].translation
                    IN  IF f_out[i].term_unified
                        THEN /\ f_in.use_term_consistency
                             /\ f_mem.glossary # <<>>
                             /\ f_out[i].translation
                                    = replace_term_in_translation(own, 1, f_mem.glossary)
                             /\ f_out[i].translation # own
                        ELSE f_out[i].translation = own

\* C19 witness: two blocks with distinct ids, a paragraph before a title,
\* translated in priority order (the title first) with different results,
\* and both hold their own result after the return
C19_Witness ==
    /\ f_part = "blocks"
    /\ f_pc = "returned"
    /\ DistinctIds(f_in.blocks)
    /\ f_in.use_smart_batching
    /\ Len(f_mem.valid) = 2
    /\ f_mem.results = <<2, 1>>
    /\ f_mem.produced[1].translation # f_mem.produced[2].translation
    /\ \A i \in 1..2 : Translated(i) /\ f_out[i].translation = f_mem.produced[i].translation

\* C25: for every task result with translation None the block of distinct
\* id ends with the failure marker as translation, translation_error set
\* and translation_failed = True, the call returns, and every other valid
\* block holds its translation.
C25_FailureRecorded ==
    (f_part = "blocks" /\ f_pc = "returned" /\ DistinctIds(f_in.blocks)) =>
        \A i \in 1..Len(f_out) :
            (\E t \in 1..Len(f_mem.valid) : f_mem.valid[t] = i) =>
                IF f_mem.produced[TaskOf(i)].error
                THEN /\ f_out[i].translation = FailureMarker
                     /\ f_out[i].translation_error
                     /\ f_out[i].translation_failed
                ELSE /\ f_out[i].translation # <<>>
                     /\ f_out[i].translation # FailureMarker
                     /\ ~f_out[i].translation_error

\* ------------------------------------------------------------------------
\* detect_repeated_headers_footers (services/layout_enhancement.py)
\* A text is a sequence of characters; every page has one block, flagged
\* header, footer or not at all ("none").
\* ------------------------------------------------------------------------

NumHfPages == 3

HfDigits == {"1", "2"}

\* the texts of the flagged blocks: a running title with two page numbers,
\* and two other titles
HfTexts == {<<"a", "1">>, <<"a", "2">>, <<"b">>, <<"a", "b">>}

\* normalize: lower case, digits and special characters removed
hf_normalize(t) == SelectSeq(t, LAMBDA c : c \notin HfDigits)

RECURSIVE longest_common_subsequence_length(_, _)
longest_common_subsequence_length(s1, s2) ==
    IF s1 = <<>> \/ s2 = <<>> THEN 0
    ELSE LET f1 == SubSeq(s1, 1, Len(s1) - 1)
             f2 == SubSeq(s2, 1, Len(s2) - 1)
         IN  IF s1[Len(s1)] = s2[Len(s2)]
             THEN longest_common_subsequence_length(f1, f2) + 1
             ELSE Max({longest_common_subsequence_length(f1, s2),
                       longest_common_subsequence_length(s1, f2)})

\* calculate_text_similarity, as the fraction num / den:
\* 0.6 * jaccard + 0.4 * lcs_similarity
calculate_text_similarity(text1, text2) ==
    IF text1 = <<>> \/ text2 = <<>> THEN [num |-> 0, den |-> 1]
    ELSE LET norm1 == hf_normalize(text1)
             norm2 == hf_normalize(text2)
             set1 == Range(norm1)
             set2 == Range(norm2)
             union == Max({Cardinality(set1 \cup set2), 1})
             max_len == Max({Len(norm1), Len(norm2)})
         IN  IF norm1 = <<>> /\ norm2 = <<>> THEN [num |-> 1, den |-> 1]
             ELSE [num |-> 6 * Cardinality(set1 \cap set2) * max_len
                           + 4 * longest_common_subsequence_length(norm1, norm2) * union,
                   den |-> 10 * union * max_len]

\* calculate_text_similarity(text1, text2) >= similarity_threshold (0.7)
Similar(text1, text2) ==
    LET sim == calculate_text_similarity(text1, text2)
    IN  10 * sim.num >= 7 * sim.den

\* the blocks of the pages, one per page
HfBlock(pages, p) == pages[p][1]

\* header_counter / footer_counter: the texts of a role in the order they
\* are first seen, and how often each occurs
RECURSIVE CounterKeys(_, _, _)
CounterKeys(pages, role, p) ==
    IF p = 0 THEN <<>>
    ELSE LET before == CounterKeys(pages, role, p - 1)
             b == HfBlock(pages, p)
         IN  IF b.is_header_footer = role /\ b.text \notin Range(before)
             THEN Append(before, b.text) ELSE before

CounterCount(pages, role, text) ==
    Cardinality({p \in 1..Len(pages) :
                    HfBlock(pages, p).is_header_footer = role
                    /\ HfBlock(pages, p).text = text})

\* if count < 2: continue
HfCounted(count) == count >= 2

\* the grouping loop: a text that occurs at least twice joins the first
\* group whose key it is similar to, or opens a group
RECURSIVE BuildGroups(_, _, _, _)
BuildGroups(groups, keys, pages, role) ==
    IF keys = <<>> THEN groups
    ELSE LET text == Head(keys)
             hit == {g \in 1..Len(groups) : Similar(text, groups[g].key)}
         IN  IF ~HfCounted(CounterCount(pages, role, text))
             THEN BuildGroups(groups, Tail(keys), pages, role)
             ELSE IF hit # {}
             THEN BuildGroups([groups EXCEPT ![Min(hit)].members = @ \cup {text}],
                              Tail(keys), pages, role)
             ELSE BuildGroups(Append(groups, [key |-> text, members |-> {text}]),
                              Tail(keys), pages, role)

\* header_keep / footer_keep
HfKeep(pages, role) ==
    LET groups == BuildGroups(<<>>, CounterKeys(pages, role, Len(pages)), pages, role)
    IN  UNION {groups[g].members : g \in 1..Len(groups)}

detect_repeated_headers_footers(pages) ==
    [p \in 1..Len(pages) |->
        LET b == HfBlock(pages, p)
        IN  <<IF b.is_header_footer # "none"
                 /\ ~\E keep_text \in HfKeep(pages, b.is_header_footer) :
                        Similar(b.text, keep_text)
              THEN [b EXCEPT !.is_header_footer = "none"]
              ELSE b>>]

HfPages ==
    [1..NumHfPages -> {<<[text |-> t, is_header_footer |-> r]>> :
                          t \in HfTexts, r \in {"header", "footer", "none"}}]

HfInit ==
    /\ FnOthersIdle
    /\ f_part = "hf"
    /\ f_pc = "called"
    /\ f_in \in HfPages
    /\ f_mem = <<>>
    /\ f_out = <<>>

HfDetect ==
    /\ f_part = "hf"
    /\ f_pc = "called"
    /\ f_out' = detect_repeated_headers_footers(f_in)
    /\ f_pc' = "returned"
    /\ UNCHANGED <<f_in, f_mem>>
    /\ FnFrame

HfNext == HfDetect

SpecHf == HfInit /\ [][HfNext]_vars

\* the blocks of a role whose text is similar to the text of block p
HfGroupOf(pages, p) ==
    {q \in 1..Len(pages) :
        /\ HfBlock(pages, q).is_header_footer = HfBlock(pages, p).is_header_footer
        /\ Similar(HfBlock(pages, q).text, HfBlock(pages, p).text)}

\* C23: after detect_repeated_headers_footers a block flagged header (or
\* footer) keeps its flag if and only if the header (footer) blocks similar
\* to it, itself included, are at least 2 in the document, also when
\* their texts each occur once and differ only in digits.
C23_GroupOfTwoKeeps ==
    (f_part = "hf" /\ f_pc = "returned") =>
        \A p \in 1..Len(f_in) :
            HfBlock(f_in, p).is_header_footer # "none" =>
                (HfBlock(f_out, p).is_header_footer = HfBlock(f_in, p).is_header_footer
                    <=> Cardinality(HfGroupOf(f_in, p)) >= 2)

\* ------------------------------------------------------------------------
\* Section ranges (services/document_structure.py
\* analyze_document_structure, after the tree is built).  A page is the
\* list of its blocks; the page at position p of the list has index p - 1.
\* A block is [id, level, reading_order]: level is what
\* _guess_heading_level gives a block of type heading with a text, and 0
\* for every other block.  The blocks come from the parser and carry no
\* section_id and no section_level yet.  None is written 0.
\* ------------------------------------------------------------------------

\* the largest number of pages of a document
NumSecPages == 2

\* the largest number of blocks of a page
NumSecBlocks == 2

\* the heading levels of the blocks (0: not a section heading)
SecLevels == 0..2

\* the reading orders of the blocks
SecOrders == 0..1

\* the id of the block at position k of the page at position p
SecBlockId(p, k) == 10 * p + k

SecPages ==
    UNION {[1..n -> SecLevels \X SecOrders] : n \in 0..NumSecBlocks}

SecDocument(shape) ==
    [p \in 1..Len(shape) |->
        [k \in 1..Len(shape[p]) |->
            [id |-> SecBlockId(p, k), level |-> shape[p][k][1],
             reading_order |-> shape[p][k][2], page_index |-> p - 1]]]

RECURSIVE SecFlatten(_)
SecFlatten(pages) ==
    IF pages = <<>> THEN <<>> ELSE Head(pages) \o SecFlatten(Tail(pages))

\* the loop over pages and blocks that appends the headings of a level > 0,
\* then heading_candidates.sort(key=(page_index, reading_order))
heading_candidates(pages) ==
    LET found == SelectSeq(SecFlatten(pages), LAMBDA blk : blk.level > 0)
    IN  StableSort(found, [i \in 1..Len(found) |->
                              <<found[i].page_index, found[i].reading_order, 0>>])

\* the loop over heading_candidates: parent of every node (0: a root)
RECURSIVE SectionParents(_, _, _)
SectionParents(levels, stack, parent) ==
    IF Len(parent) = Len(levels)
    THEN parent
    ELSE LET idx == Len(parent) + 1
             popped == PopFinished(stack, levels, levels[idx])
         IN  SectionParents(levels, Append(popped, idx),
                            Append(parent, IF popped # <<>>
                                           THEN popped[Len(popped)] ELSE 0))

\* _dfs over the children of node from child k on: preorder
RECURSIVE flat_sections_from(_, _, _)
flat_sections_from(parent, node, k) ==
    IF k > Len(parent)
    THEN <<>>
    ELSE IF parent[k] = node
         THEN <<k>> \o flat_sections_from(parent, k, k + 1)
                    \o flat_sections_from(parent, node, k + 1)
         ELSE flat_sections_from(parent, node, k + 1)

flat_sections(parent) == flat_sections_from(parent, 0, 1)

\* linear_blocks: page after page, each sorted by reading_order
RECURSIVE linear_blocks(_)
linear_blocks(pages) ==
    IF pages = <<>>
    THEN <<>>
    ELSE LET blocks == Head(pages)
         IN  StableSort(blocks, [i \in 1..Len(blocks) |->
                                   <<blocks[i].reading_order, 0, 0>>])
                 \o linear_blocks(Tail(pages))

\* start_indices[bid]: the first position of the block bid in linear_blocks
\* (-1 when it has none)
start_index(linear, bid) ==
    LET at == {i \in 1..Len(linear) : linear[i].id = bid}
    IN  IF at = {} THEN -1 ELSE Min(at)

\* sorted_sec: the sections that have a start index, sorted by it
sorted_sec(cands, flat, linear) ==
    LET have == SelectSeq(flat, LAMBDA s : start_index(linear, cands[s].id) # -1)
    IN  StableSort(have, [i \in 1..Len(have) |->
                             <<start_index(linear, cands[have[i]].id), 0, 0>>])

\* end_idx of a section that is followed by another one, one block late
SectionEndAtNext(start_idx, next_start) == next_start

\* end_idx = max(start_idx, next_start - 1)
SectionEnd(start_idx, next_start) == Max({start_idx, next_start - 1})

\* the loop over sorted_sec from position idx on: end_block_id of the
\* sections and section_id / section_level of the blocks in their ranges
RECURSIVE AnnotateSections(_, _, _, _, _)
AnnotateSections(idx, cands, sorted, linear, ends) ==
    IF idx > Len(sorted)
    THEN [blocks |-> linear, end_block_id |-> ends]
    ELSE LET sec == sorted[idx]
             start_idx == start_index(linear, cands[sec].id)
             end_idx == IF idx + 1 <= Len(sorted)
                        THEN SectionEnd(start_idx,
                                 start_index(linear, cands[sorted[idx + 1]].id))
                        ELSE Len(linear)
             marked == [i \in 1..Len(linear) |->
                          IF i >= start_idx /\ i <= end_idx
                          THEN [linear[i] EXCEPT !.section_id = cands[sec].id,
                                                 !.section_level = cands[sec].level]
                          ELSE linear[i]]
         IN  AnnotateSections(idx + 1, cands, sorted, marked,
                              [ends EXCEPT ![sec] = linear[end_idx].id])

\* blk.setdefault("section_id", None); blk.setdefault("section_level", 0)
SecDefaults(linear) ==
    [i \in 1..Len(linear) |->
        [id |-> linear[i].id, level |-> linear[i].level,
         section_id |-> 0, section_level |-> 0]]

SecInit ==
    /\ FnOthersIdle
    /\ f_part = "sections"
    /\ f_pc = "called"
    /\ \E n \in 0..NumSecPages : \E shape \in [1..n -> SecPages] :
          f_in = SecDocument(shape)
    /\ f_mem = <<>>
    /\ f_out = <<>>

\* if not pages / if not heading_candidates: return {"sections": []}
SecNoHeading ==
    /\ f_part = "sections"
    /\ f_pc = "called"
    /\ heading_candidates(f_in) = <<>>
    /\ f_pc' = "returned"
    /\ f_out' = [blocks |-> linear_blocks(f_in), end_block_id |-> <<>>]
    /\ UNCHANGED <<f_in, f_mem>>
    /\ FnFrame

\* the sorted heading candidates and the tree
SecBuildTree ==
    /\ f_part = "sections"
    /\ f_pc = "called"
    /\ heading_candidates(f_in) # <<>>
    /\ LET cands == heading_candidates(f_in)
       IN  f_mem' = [cands |-> cands,
                     parent |-> SectionParents([i \in 1..Len(cands) |-> cands[i].level],
                                               <<>>, <<>>)]
    /\ f_pc' = "tree"
    /\ UNCHANGED <<f_in, f_out>>
    /\ FnFrame

\* end_block_id of the sections and the section fields of the blocks
SecAnnotate ==
    /\ f_part = "sections"
    /\ f_pc = "tree"
    /\ LET linear == SecDefaults(linear_blocks(f_in))
           sorted == sorted_sec(f_mem.cands, flat_sections(f_mem.parent), linear)
       IN  f_out' = AnnotateSections(1, f_mem.cands, sorted, linear,
                                     [s \in 1..Len(f_mem.cands) |-> 0])
    /\ f_pc' = "returned"
    /\ UNCHANGED <<f_in, f_mem>>
    /\ FnFrame

SecNext == SecNoHeading \/ SecBuildTree \/ SecAnnotate

SpecSections == SecInit /\ [][SecNext]_vars

\* the positions of the section headings in the linear order
SecHeadingsAt(blocks) == {i \in 1..Len(blocks) : blocks[i].level > 0}

NumParseBlocks == 3

TerminalStages == {"success", "failed"}

ParseJobInit ==
    /\ FnOthersIdle
    /\ f_part = "parsejob"
    /\ f_pc = "called"
    /\ f_in \in 0..NumParseBlocks
    /\ \E stage \in {"pending", "failed"} :
          f_mem = [stage |-> stage,
                   control |-> IF stage = "failed" THEN "canceled" ELSE "running",
                   done |-> 0, failed |-> 0, exported |-> FALSE]
    /\ f_out = "running"

\* repo.update_job(stage=parsing, control="running") before the try
ParseJobStart ==
    /\ f_part = "parsejob"
    /\ f_pc = "called"
    /\ f_mem' = [f_mem EXCEPT !.stage = "parsing", !.control = "running"]
    /\ f_pc' = "parse"
    /\ UNCHANGED <<f_in, f_out>>
    /\ FnFrame

\* parse_pdf_to_structured_json, save_document_json and the update that
\* keeps the stage parsing with progress 1.0; any of them may raise
ParseJobParse ==
    /\ f_part = "parsejob"
    /\ f_pc = "parse"
    /\ \E raised \in BOOLEAN :
          f_pc' = IF raised THEN "failing" ELSE "parsed"
    /\ UNCHANGED <<f_in, f_mem, f_out>>
    /\ FnFrame

\* the translation phase begins: stage translating; without a block to
\* translate the stage is success at once
ParseJobTranslateBegin ==
    /\ f_part = "parsejob"
    /\ f_pc = "parsed"
    /\ IF f_in > 0
       THEN /\ f_mem' = [f_mem EXCEPT !.stage = "translating"]
            /\ f_pc' = "blocks"
       ELSE /\ f_mem' = [f_mem EXCEPT !.stage = "success"]
            /\ f_pc' = "notify"
    /\ UNCHANGED <<f_in, f_out>>
    /\ FnFrame

\* one block of translate_all: translated, or its exception caught and the
\* failure recorded on the block
ParseJobBlock ==
    /\ f_part = "parsejob"
    /\ f_pc = "blocks"
    /\ f_mem.done < f_in
    /\ \E block_failed \in BOOLEAN :
          f_mem' = [f_mem EXCEPT !.done = @ + 1,
                                 !.failed = @ + (IF block_failed THEN 1 ELSE 0)]
    /\ f_pc' = IF f_mem.done + 1 = f_in THEN "compose" ELSE "blocks"
    /\ UNCHANGED <<f_in, f_out>>
    /\ FnFrame

\* stage composing and save_document_json
ParseJobCompose ==
    /\ f_part = "parsejob"
    /\ f_pc = "compose"
    /\ f_mem' = [f_mem EXCEPT !.stage = "composing"]
    /\ f_pc' = "composed"
    /\ UNCHANGED <<f_in, f_out>>
    /\ FnFrame

\* build_translated_pdf (its exception is caught: no translated_pdf_path
\* then) and stage success
ParseJobSuccess ==
    /\ f_part = "parsejob"
    /\ f_pc = "composed"
    /\ \E exported \in BOOLEAN :
          f_mem' = [f_mem EXCEPT !.stage = "success", !.exported = exported]
    /\ f_pc' = "notify"
    /\ UNCHANGED <<f_in, f_out>>
    /\ FnFrame

\* an exception of the translation phase outside the per-block try (an
\* import, the progress update, asyncio.run, save_document_json): the
\* handler of the inner try sets the stage back to parsing
ParseJobTranslationRaises ==
    /\ f_part = "parsejob"
    /\ f_pc \in {"parsed", "blocks", "compose", "composed"}
    /\ f_mem' = [f_mem EXCEPT !.stage = "parsing"]
    /\ f_pc' = "notify"
    /\ UNCHANGED <<f_in, f_out>>
    /\ FnFrame

\* the last notification (its exception is caught) and the return
ParseJobReturn ==
    /\ f_part = "parsejob"
    /\ f_pc = "notify"
    /\ f_out' = "returned"
    /\ f_pc' = "done"
    /\ UNCHANGED <<f_in, f_mem>>
    /\ FnFrame

\* the handler of the outer try: stage failed, control canceled, raise
ParseJobFail ==
    /\ f_part = "parsejob"
    /\ f_pc = "failing"
    /\ f_mem' = [f_mem EXCEPT !.stage = "failed", !.control = "canceled"]
    /\ f_out' = "raised"
    /\ f_pc' = "done"
    /\ UNCHANGED f_in
    /\ FnFrame

ParseJobNext ==
    \/ ParseJobStart
    \/ ParseJobParse
    \/ ParseJobTranslateBegin
    \/ ParseJobBlock
    \/ ParseJobCompose
    \/ ParseJobSuccess
    \/ ParseJobTranslationRaises
    \/ ParseJobReturn
    \/ ParseJobFail

SpecParseJob == ParseJobInit /\ [][ParseJobNext]_vars

\* C29: whenever run_parse_job finishes an execution, by returning or by
\* raising, the job's stage is success or failed, also when the automatic
\* translation phase after parsing raised.
C29_EndsInTerminalStage ==
    [][(f_part = "parsejob" /\ f_pc # "done" /\ f_pc' = "done")
          => f_mem'.stage \in TerminalStages]_vars

====
